---- MODULE Spec2Model ----
(***************************************************************************)
(* State-machine model of the events platform (eduardSie/istatp): the      *)
(* relational store (users, tags, organizers, cities, events, event_tags,  *)
(* bookmarks, event_audit_log), the request handlers of the REST API       *)
(* (src/src/routers/*_route.py) and of the browser surface                 *)
(* (src/src/routers/frontend_route.py), the access gate                    *)
(* (src/src/core/auth.py) and the bucket of the event images (objects).    *)
(*                                                                         *)
(* Conventions.  An Optional value is a sequence of length <= 1: None is   *)
(* <<>> and a present value x is <<x>>.  A Decimal is [c, s]: coefficient  *)
(* c and scale s, the number c / 10^s, so that Decimal("10") and           *)
(* Decimal("10.00") are equal numbers with different str().  A handler     *)
(* that runs with no other request in flight is one action (Spec,          *)
(* SpecForm, SpecGate, SpecDup, SpecList, SpecPrice, SpecAuth, SpecUsers,  *)
(* SpecBookmarks, SpecNotFound, SpecParse, SpecTags, SpecRepeat; SpecStore *)
(* adds the DELETE statements on the tables that no handler deletes from;  *)
(* SpecImage and SpecUnlink add the outcomes of the bucket and of the      *)
(* database that a request with an image can meet);                        *)
(* SpecConc splits a handler into its load                                 *)
(* (gate, queries, the row it edits) and its commit, and lets two          *)
(* sessions interleave.  The store is READ COMMITTED: a session's writes   *)
(* become visible, all together, at its commit; a failed commit leaves the *)
(* store untouched                                                         *)
(* (the session is closed by get_db, which rolls the transaction back).    *)
(***************************************************************************)
EXTENDS Integers, Sequences, FiniteSets, TLC

VARIABLES users, tags, organizers, cities, events, event_tags, bookmarks,
          audit, sessions, last, nops, objects

dbvars == <<users, tags, organizers, cities, events, event_tags, bookmarks,
            audit>>
vars == <<users, tags, organizers, cities, events, event_tags, bookmarks,
          audit, sessions, last, nops, objects>>

(* Bounds of the model. *)
MaxOps == 2

None == <<>>
Some(x) == <<x>>

(***************************************************************************)
(* Python's str() of the values an Event column holds.                     *)
(***************************************************************************)
Digit == <<"0", "1", "2", "3", "4", "5", "6", "7", "8", "9">>

RECURSIVE NatStr(_)
NatStr(n) == IF n < 10 THEN Digit[n + 1]
             ELSE NatStr(n \div 10) \o Digit[(n % 10) + 1]

RECURSIVE Pow10(_)
Pow10(k) == IF k = 0 THEN 1 ELSE 10 * Pow10(k - 1)

RECURSIVE PadLeft(_, _)
PadLeft(str, width) == IF Len(str) >= width THEN str
                       ELSE PadLeft("0" \o str, width)

Dec(c, s) == [c |-> c, s |-> s]

Abs(n) == IF n < 0 THEN 0 - n ELSE n

(* str(Decimal): the digits as written, scale kept ("10", "10.00"). *)
DecimalStr(d) ==
    LET sign == IF d.c < 0 THEN "-" ELSE ""
        mag == Abs(d.c)
    IN  IF d.s = 0 THEN sign \o NatStr(mag)
        ELSE sign \o NatStr(mag \div Pow10(d.s)) \o "."
                  \o PadLeft(NatStr(mag % Pow10(d.s)), d.s)

(* Decimal.__eq__: equality of the numbers, whatever the scale. *)
DecimalEq(a, b) == a.c * Pow10(b.s) = b.c * Pow10(a.s)

(* Numeric(10, 2): the column stores two fractional digits. *)
Numeric2(d) == IF d.s <= 2 THEN Dec(d.c * Pow10(2 - d.s), 2)
               ELSE Dec(d.c \div Pow10(d.s - 2), 2)

StrColumns == {"title", "description", "image_url"}
IntColumns == {"organizer_id", "city_id", "created_at", "updated_at"}
DecimalColumns == {"price"}
BoolColumns == {"is_online"}

(* str(value) of column f's value: str(None) is the text "None". *)
Str(f, x) ==
    IF x = None THEN "None"
    ELSE IF f \in DecimalColumns THEN DecimalStr(x[1])
    ELSE IF f \in IntColumns THEN NatStr(x[1])
    ELSE IF f \in BoolColumns THEN (IF x[1] THEN "True" ELSE "False")
    ELSE x[1]

(* The == the ORM uses to decide whether an attribute has a net change. *)
ValueEq(f, x, y) ==
    IF x = None \/ y = None THEN x = y
    ELSE IF f \in DecimalColumns THEN DecimalEq(x[1], y[1])
    ELSE x = y

(* What the column holds once value x is written to it. *)
ColumnStore(f, x) ==
    IF x # None /\ f \in DecimalColumns THEN Some(Numeric2(x[1])) ELSE x

(***************************************************************************)
(* Schema: src/src/models.                                                 *)
(***************************************************************************)
EventColumns == {"title", "description", "price", "organizer_id", "city_id",
                 "is_online", "image_url", "created_at", "updated_at"}
NotNullColumns == {"title", "price", "organizer_id", "is_online"}

(* EventUpdate's fields other than tag_ids, in declaration order. *)
EventUpdateFields == <<"title", "description", "price">>

Range(seq) == {seq[i] : i \in 1..Len(seq)}

UserIds == {u.id : u \in users}
TagIds == {t.id : t \in tags}
OrganizerIds == {o.id : o \in organizers}
CityIds == {c.id : c \in cities}
EventIds == DOMAIN events

TagsOf(rows, e) == {r[2] : r \in {q \in Range(rows) : q[1] = e}}

NextId(ids) == IF ids = {} THEN 1
               ELSE (CHOOSE m \in ids : \A k \in ids : k <= m) + 1

(* The clock: a request's timestamp is its number. *)
Now == nops + 1

(***************************************************************************)
(* Access gate: src/src/core/auth.py and frontend_route.py.  A credential  *)
(* is None (no token or cookie) or Some([valid, sub]): a token whose       *)
(* signature and expiry verify or not, naming user id sub.                 *)
(***************************************************************************)
NoToken == None
Token(uid) == Some([valid |-> TRUE, sub |-> uid])
BadToken(uid) == Some([valid |-> FALSE, sub |-> uid])

(* Mutant: the subject is read without verifying the token. *)
DecodeSubUnverified(cred) == IF cred = None THEN None ELSE Some(cred[1].sub)

(* jwt.decode and int(payload["sub"]): the subject, or None on failure. *)
DecodeSub(cred) == IF cred = None \/ ~cred[1].valid THEN None
                   ELSE Some(cred[1].sub)

(* db.get(User, user_id) *)
GetUser(uid) == IF uid \in UserIds
                THEN Some(CHOOSE u \in users : u.id = uid) ELSE None

(* get_current_user: the User, or None where it raises 401. *)
get_current_user(cred) ==
    IF DecodeSub(cred) = None THEN None ELSE GetUser(DecodeSub(cred)[1])

(* Mutant: any authenticated caller is admitted. *)
require_any_user(cred) == IF get_current_user(cred) = None THEN 401 ELSE 0

(* require_admin: 0 when the caller is admitted, else the status raised. *)
require_admin(cred) ==
    IF get_current_user(cred) = None THEN 401
    ELSE IF get_current_user(cred)[1].role # "admin" THEN 403
    ELSE 0

(* The detail of the gate's refusal: OAuth2PasswordBearer for a request
   without a token, get_current_user, require_admin. *)
GateDetail(cred) ==
    IF cred = None THEN "Not authenticated"
    ELSE IF get_current_user(cred) = None
    THEN "Could not validate credentials"
    ELSE "Admin access required"

(* get_current_user_cookie: the User or None. *)
get_current_user_cookie(cred) ==
    IF DecodeSub(cred) = None THEN None ELSE GetUser(DecodeSub(cred)[1])

(* _require_admin: 0 when admitted, else 403. *)
_require_admin(user) ==
    IF user = None \/ user[1].role # "admin" THEN 403 ELSE 0

(***************************************************************************)
(* The response of the last request: the handler, the credential and the   *)
(* inputs the handler read, and the HTTP status it answered with.          *)
(***************************************************************************)
NoRequest == [op |-> "none", cred |-> None, req |-> <<>>, status |-> 0,
              detail |-> ""]

Response(op, cred, req, status, detail) ==
    [op |-> op, cred |-> cred, req |-> req, status |-> status,
     detail |-> detail]

(* A request answered without touching the store. *)
Answer(op, cred, req, status, detail) ==
    /\ last' = Response(op, cred, req, status, detail)
    /\ UNCHANGED dbvars

(***************************************************************************)
(* Audit diff: update_event lines 235-247, do_admin_event_edit 583-599.    *)
(***************************************************************************)
(* Mutant: the dump drops null values (exclude_none), so that an explicit
   null reads as an omitted field. *)
model_dump_exclude_none(p) ==
    [f \in {k \in DOMAIN p \ {"tag_ids"} : p[k] # None} |-> p[f]]

(* payload.model_dump(exclude_unset=True, exclude={"tag_ids"}) *)
model_dump(p) == [f \in DOMAIN p \ {"tag_ids"} |-> p[f]]

AuditRow(e, by, f, old, new) ==
    [event_id |-> e, changed_by |-> Some(by), changed_column |-> f,
     old_value |-> Str(f, old), new_value |-> Str(f, new)]

(* Mutant: the diff compares the values, not their str(). *)
RECURSIVE AuditDiffByValue(_, _, _, _, _)
AuditDiffByValue(fields, snap, data, e, by) ==
    IF fields = <<>> THEN <<>>
    ELSE LET f == Head(fields)
             rest == AuditDiffByValue(Tail(fields), snap, data, e, by)
         IN  IF f \in DOMAIN data /\ ~ValueEq(f, snap[f], data[f])
             THEN <<AuditRow(e, by, f, snap[f], data[f])>> \o rest
             ELSE rest

(* Mutant: the rows are added last field first. *)
RECURSIVE AuditDiffReversed(_, _, _, _, _)
AuditDiffReversed(fields, snap, data, e, by) ==
    IF fields = <<>> THEN <<>>
    ELSE LET f == Head(fields)
             rest == AuditDiffReversed(Tail(fields), snap, data, e, by)
         IN  IF f \in DOMAIN data /\ Str(f, snap[f]) # Str(f, data[f])
             THEN rest \o <<AuditRow(e, by, f, snap[f], data[f])>>
             ELSE rest

(* One EventAuditLog per supplied field whose str() differs, in the order
   the update dictionary iterates: model_dump yields the fields that were
   set in the order EventUpdate declares them. *)
RECURSIVE AuditDiff(_, _, _, _, _)
AuditDiff(fields, snap, data, e, by) ==
    IF fields = <<>> THEN <<>>
    ELSE LET f == Head(fields)
             rest == AuditDiff(Tail(fields), snap, data, e, by)
         IN  IF f \in DOMAIN data /\ Str(f, snap[f]) # Str(f, data[f])
             THEN <<AuditRow(e, by, f, snap[f], data[f])>> \o rest
             ELSE rest

(* setattr(event, field, new_val) for every supplied field. *)
SetAttrs(snap, data) ==
    [f \in EventColumns |-> IF f \in DOMAIN data THEN data[f] ELSE snap[f]]

(***************************************************************************)
(* The unit of work at commit.                                             *)
(***************************************************************************)
(* The columns the ORM puts in the UPDATE: those whose attribute differs
   from the value the session loaded. *)
DirtyColumns(snap, obj) == {f \in EventColumns : ~ValueEq(f, snap[f], obj[f])}

WriteRow(row, obj, dirty) ==
    [f \in EventColumns |-> IF f \in dirty THEN ColumnStore(f, obj[f])
                            ELSE row[f]]

(* nullable=False and the organizers and cities foreign keys of events. *)
EventRowOk(obj, dirty) ==
    /\ \A f \in dirty \cap NotNullColumns : obj[f] # None
    /\ "organizer_id" \in dirty => obj.organizer_id[1] \in OrganizerIds
    /\ ("city_id" \in dirty /\ obj.city_id # None)
          => obj.city_id[1] \in CityIds

(* Mutant: the table has no primary key. *)
PrimaryKeyUnchecked(rows) == TRUE

(* A composite primary key: no two rows alike. *)
PrimaryKeyOk(rows) ==
    \A i \in 1..Len(rows) : \A j \in 1..Len(rows) : i # j => rows[i] # rows[j]

(* EventTag's foreign keys: events.id and tags.id. *)
EventTagFkOk(rows) ==
    \A r \in Range(rows) : r[1] \in EventIds /\ r[2] \in TagIds

(* Mutant: the existing associations are not deleted. *)
DeleteNoEventTags(rows, e) == rows

(* EventTag.__table__.delete().where(EventTag.event_id == event_id) *)
DeleteEventTags(rows, e) == SelectSeq(rows, LAMBDA r : r[1] # e)

(* db.add(EventTag(event_id=event_id, tag_id=tid)) for tid in tag_ids *)
AddEventTags(rows, e, ids) == rows \o [i \in 1..Len(ids) |-> <<e, ids[i]>>]

(* The tag step of an update: tagsel is None (no replacement) or
   Some(ids). *)
ReplaceTags(rows, e, tagsel) ==
    IF tagsel = None THEN rows
    ELSE AddEventTags(DeleteEventTags(rows, e), e, tagsel[1])

(* db.commit() of an update: the audit INSERTs, the UPDATE of the dirty
   columns and the event_tags DELETE and INSERTs, all or nothing.  snap is
   the row the session loaded, obj the session's Event after the handler's
   body. *)
FlushUpdate(snap, e, obj, rows, tagsel) ==
    LET dirty == DirtyColumns(snap, obj)
        newTags == ReplaceTags(event_tags, e, tagsel)
        ok == /\ e \in EventIds
              /\ EventRowOk(obj, dirty)
              /\ EventTagFkOk(newTags)
              /\ PrimaryKeyOk(newTags)
    IN  [ok |-> ok,
         events |-> IF ok
                    THEN [events EXCEPT ![e] = WriteRow(events[e], obj, dirty)]
                    ELSE events,
         event_tags |-> IF ok THEN newTags ELSE event_tags,
         audit |-> IF ok THEN audit \o rows ELSE audit]

(***************************************************************************)
(* PATCH /api/v1/event/{event_id}: update_event, after the load.           *)
(***************************************************************************)
(* Mutant: a body without tag_ids reads as the empty selection. *)
PatchTagSelDefaultEmpty(p) ==
    IF "tag_ids" \in DOMAIN p /\ p.tag_ids # None THEN p.tag_ids
    ELSE Some(<<>>)

(* payload.tag_ids is not None *)
PatchTagSel(p) == IF "tag_ids" \in DOMAIN p THEN p.tag_ids ELSE None

PatchCommit(cred, e, p, snap) ==
    LET by == get_current_user(cred)[1].id
        data == model_dump(p)
        rows == AuditDiff(EventUpdateFields, snap, data, e, by)
        obj == [SetAttrs(snap, data) EXCEPT !.updated_at = Some(Now)]
        r == FlushUpdate(snap, e, obj, rows, PatchTagSel(p))
    IN  /\ events' = r.events
        /\ event_tags' = r.event_tags
        /\ audit' = r.audit
        /\ UNCHANGED <<users, tags, organizers, bookmarks>>
        /\ last' = Response("update_event", cred, [e |-> e, p |-> p],
                            IF r.ok THEN 200 ELSE 500,
                            IF r.ok THEN "OK" ELSE "Internal Server Error")

(* The whole handler, no other request in flight. *)
update_event(cred, e, pool) ==
    IF require_admin(cred) # 0
    THEN Answer("update_event", cred, [e |-> e], require_admin(cred),
                GateDetail(cred))
    ELSE IF e \notin EventIds
    THEN Answer("update_event", cred, [e |-> e], 404, "Event not found")
    ELSE \E p \in pool : PatchCommit(cred, e, p, events[e])

(***************************************************************************)
(* POST /admin/events/{event_id}/edit: do_admin_event_edit.  A form is     *)
(* [title, organizer_id, price, description, tag_ids]; description and     *)
(* tag_ids are None when the form does not send them.                      *)
(***************************************************************************)
(* The updates dictionary, in its order. *)
FormUpdateFields ==
    <<"title", "organizer_id", "price", "city_id", "description", "is_online">>

(* city_id or None *)
OrNone(x) == IF x = Some(0) THEN None ELSE x

FormUpdates(form) ==
    [title |-> Some(form.title), organizer_id |-> Some(form.organizer_id),
     price |-> Some(form.price), city_id |-> OrNone(form.city_id),
     description |-> form.description,
     is_online |-> Some(form.is_online = Some("true"))]

(* tag_ids: List[int] = Form([]) *)
FormTagIds(form) == IF form.tag_ids = None THEN <<>> ELSE form.tag_ids[1]

FormCommit(cred, e, form, snap) ==
    LET by == get_current_user_cookie(cred)[1].id
        data == FormUpdates(form)
        rows == AuditDiff(FormUpdateFields, snap, data, e, by)
        obj == [SetAttrs(snap, data) EXCEPT !.updated_at = Some(Now)]
        r == FlushUpdate(snap, e, obj, rows, Some(FormTagIds(form)))
    IN  /\ events' = r.events
        /\ event_tags' = r.event_tags
        /\ audit' = r.audit
        /\ UNCHANGED <<users, tags, organizers, bookmarks>>
        /\ last' = Response("do_admin_event_edit", cred,
                            [e |-> e, form |-> form],
                            IF r.ok THEN 302 ELSE 500,
                            IF r.ok THEN "/admin/events"
                            ELSE "Internal Server Error")

do_admin_event_edit(cred, e, pool) ==
    IF _require_admin(get_current_user_cookie(cred)) # 0
    THEN Answer("do_admin_event_edit", cred, [e |-> e], 403,
                "Admin access required")
    ELSE IF e \notin EventIds
    THEN Answer("do_admin_event_edit", cred, [e |-> e], 404, "Not Found")
    ELSE \E form \in pool : FormCommit(cred, e, form, events[e])

(***************************************************************************)
(* Unique constraints and inserts of the other tables.                     *)
(***************************************************************************)
(* Tag.name, Organizer.name: unique=True *)
NameUnique(rows) == \A a \in rows : \A b \in rows : a.name = b.name => a = b

(* User.email: unique=True *)
EmailUnique(rows) == \A a \in rows : \A b \in rows : a.email = b.email => a = b

(* Bookmark's foreign keys: users.id and events.id. *)
BookmarkFkOk(rows) ==
    \A r \in Range(rows) : r[1] \in UserIds /\ r[2] \in EventIds

(* Mutant: the deletion of an event leaves its rows in the other tables. *)
WithoutEventOnly(e) ==
    [events |-> [x \in EventIds \ {e} |-> events[x]],
     event_tags |-> event_tags, bookmarks |-> bookmarks, audit |-> audit]

(* The store after event e is deleted: the ORM cascades (all,
   delete-orphan) to its event_tags, bookmarks and audit_logs. *)
WithoutEvent(e) ==
    [events |-> [x \in EventIds \ {e} |-> events[x]],
     event_tags |-> SelectSeq(event_tags, LAMBDA r : r[1] # e),
     bookmarks |-> SelectSeq(bookmarks, LAMBDA r : r[2] # e),
     audit |-> SelectSeq(audit, LAMBDA r : r.event_id # e)]

(* db.delete(tag) at flush: Tag.event_tags has no delete cascade, so the
   unit of work blanks tag_id of the tag's EventTag rows, a primary-key
   column, and raises; a tag without associations is deleted. *)
TagDeletable(t) == \A r \in Range(event_tags) : r[2] # t

(***************************************************************************)
(* tag_ids of POST /api/v1/event: a comma-separated string, here the       *)
(* sequence of its entries, each a sequence of characters.                 *)
(***************************************************************************)
DigitChars == Range(Digit)

RECURSIVE LStrip(_)
LStrip(tok) == IF tok # <<>> /\ Head(tok) = " " THEN LStrip(Tail(tok)) ELSE tok

RECURSIVE RStrip(_)
RStrip(tok) ==
    IF tok # <<>> /\ tok[Len(tok)] = " "
    THEN RStrip(SubSeq(tok, 1, Len(tok) - 1)) ELSE tok

(* t.strip() *)
Strip(tok) == RStrip(LStrip(tok))

(* The decimal digits 0 to 9 only: what int() converts. *)
IsDigit(tok) == tok # <<>> /\ \A i \in 1..Len(tok) : tok[i] \in DigitChars

DigitValue(ch) == (CHOOSE i \in 1..10 : Digit[i] = ch) - 1

RECURSIVE ToInt(_)
ToInt(tok) == IF tok = <<>> THEN 0
              ELSE 10 * ToInt(SubSeq(tok, 1, Len(tok) - 1))
                   + DigitValue(tok[Len(tok)])

(* Characters that pass str.isdigit() and that int() refuses with a
   ValueError; the superscript two, U+00B2, stands for them. *)
SuperscriptChars == {"U+00B2"}

(* str.isdigit() *)
StrIsDigit(tok) ==
    /\ tok # <<>>
    /\ \A i \in 1..Len(tok) : tok[i] \in DigitChars \cup SuperscriptChars

(* try: [int(t.strip()) for t in tag_ids.split(",") if t.strip().isdigit()]
   except ValueError: parsed_ids = []; a missing or empty tag_ids gives no
   ids. *)
ParseTagIds(entries) ==
    LET kept == SelectSeq(entries, LAMBDA t : StrIsDigit(Strip(t)))
    IN  IF \E i \in 1..Len(kept) : ~IsDigit(Strip(kept[i]))
        THEN <<>>
        ELSE [i \in 1..Len(kept) |-> ToInt(Strip(kept[i]))]

(***************************************************************************)
(* Event creation.  A creation form is [title, organizer_id, price,        *)
(* description, tag_ids].                                                  *)
(***************************************************************************)
(* Mutant: the insert stamps updated_at as an update does. *)
NewEventStamped(form) ==
    [title |-> Some(form.title), description |-> form.description,
     price |-> Some(Numeric2(form.price)),
     organizer_id |-> Some(form.organizer_id), city_id |-> form.city_id,
     is_online |-> Some(form.is_online), image_url |-> None,
     created_at |-> Some(Now), updated_at |-> Some(Now)]

(* Event(...): the row of the INSERT; updated_at has no default. *)
NewEvent(form) ==
    [title |-> Some(form.title), description |-> form.description,
     price |-> Some(Numeric2(form.price)),
     organizer_id |-> Some(form.organizer_id), city_id |-> form.city_id,
     is_online |-> Some(form.is_online), image_url |-> None,
     created_at |-> Some(Now), updated_at |-> None]

(* db.add(event), flush, the EventTag rows, commit: all or nothing. *)
FlushCreate(form, ids) ==
    LET e == NextId(EventIds)
        newEvents == (e :> NewEvent(form)) @@ events
        newTags == AddEventTags(event_tags, e, ids)
        fkOk == /\ form.organizer_id \in OrganizerIds
                /\ form.city_id # None => form.city_id[1] \in CityIds
                /\ \A i \in 1..Len(ids) : ids[i] \in TagIds
        ok == fkOk /\ PrimaryKeyOk(newTags)
    IN  [ok |-> ok, fkOk |-> fkOk,
         events |-> IF ok THEN newEvents ELSE events,
         event_tags |-> IF ok THEN newTags ELSE event_tags]

(* POST /api/v1/event: create_event (no image sent). *)
create_event(cred, form) ==
    IF require_admin(cred) # 0
    THEN Answer("create_event", cred, <<>>, require_admin(cred),
                GateDetail(cred))
    ELSE LET r == FlushCreate(form, ParseTagIds(form.tag_ids))
         IN  /\ events' = r.events
             /\ event_tags' = r.event_tags
             /\ UNCHANGED <<users, tags, organizers, bookmarks, audit>>
             /\ last' = Response("create_event", cred, [form |-> form],
                    IF r.ok THEN 201 ELSE IF ~r.fkOk THEN 400 ELSE 500,
                    IF r.ok THEN "Created"
                    ELSE IF ~r.fkOk
                    THEN "Invalid organizer_id, city_id, or tag_id."
                    ELSE "Database error")

(* Event(..., city_id=city_id or None, is_online=(is_online == "true")) *)
PageEventValues(form) ==
    [form EXCEPT !.city_id = OrNone(form.city_id),
                 !.is_online = (form.is_online = Some("true"))]

(* POST /admin/events/new: do_admin_event_create (an empty file input);
   tag_ids is a list of integers. *)
do_admin_event_create(cred, form) ==
    IF _require_admin(get_current_user_cookie(cred)) # 0
    THEN Answer("do_admin_event_create", cred, <<>>, 403,
                "Admin access required")
    ELSE LET r == FlushCreate(PageEventValues(form), form.tag_ids)
         IN  /\ events' = r.events
             /\ event_tags' = r.event_tags
             /\ UNCHANGED <<users, tags, organizers, bookmarks, audit>>
             /\ last' = Response("do_admin_event_create", cred,
                    [form |-> form], IF r.ok THEN 302 ELSE 500,
                    IF r.ok THEN "/admin/events"
                    ELSE "Internal Server Error")

(***************************************************************************)
(* Event deletion (an event without a stored image).                       *)
(***************************************************************************)
DeleteEventRows(e) ==
    /\ events' = WithoutEvent(e).events
    /\ event_tags' = WithoutEvent(e).event_tags
    /\ bookmarks' = WithoutEvent(e).bookmarks
    /\ audit' = WithoutEvent(e).audit
    /\ UNCHANGED <<users, tags, organizers>>

(* DELETE /api/v1/event/{event_id}: delete_event. *)
delete_event(cred, e) ==
    IF require_admin(cred) # 0
    THEN Answer("delete_event", cred, [e |-> e], require_admin(cred),
                GateDetail(cred))
    ELSE IF e \notin EventIds
    THEN Answer("delete_event", cred, [e |-> e], 404, "Not found")
    ELSE /\ DeleteEventRows(e)
         /\ last' = Response("delete_event", cred, [e |-> e], 204, "")

(* POST /admin/events/{event_id}/delete: do_admin_event_delete. *)
do_admin_event_delete(cred, e) ==
    IF _require_admin(get_current_user_cookie(cred)) # 0
    THEN Answer("do_admin_event_delete", cred, [e |-> e], 403,
                "Admin access required")
    ELSE IF e \notin EventIds
    THEN Answer("do_admin_event_delete", cred, [e |-> e], 302,
                "/admin/events")
    ELSE /\ DeleteEventRows(e)
         /\ last' = Response("do_admin_event_delete", cred, [e |-> e], 302,
                             "/admin/events")

(***************************************************************************)
(* Tags and organizers.                                                    *)
(***************************************************************************)
(* db.add(Tag(name=name)); commit *)
InsertTag(op, cred, name, created) ==
    LET newTags == tags \cup {[id |-> NextId(TagIds), name |-> name]}
        ok == NameUnique(newTags)
    IN  /\ tags' = IF ok THEN newTags ELSE tags
        /\ UNCHANGED <<users, organizers, events, event_tags, bookmarks,
                       audit>>
        /\ last' = Response(op, cred, [name |-> name],
                            IF ok THEN created ELSE 500,
                            IF ok THEN "Created"
                            ELSE "Internal Server Error")

(* POST /api/v1/tags: create_tag. *)
create_tag(cred, name) ==
    IF require_admin(cred) # 0
    THEN Answer("create_tag", cred, <<>>, require_admin(cred),
                GateDetail(cred))
    ELSE InsertTag("create_tag", cred, name, 201)

(* POST /admin/tags: do_admin_tag_create. *)
do_admin_tag_create(cred, name) ==
    IF _require_admin(get_current_user_cookie(cred)) # 0
    THEN Answer("do_admin_tag_create", cred, <<>>, 403,
                "Admin access required")
    ELSE IF \E t \in tags : t.name = name
    THEN Answer("do_admin_tag_create", cred, [name |-> name], 400,
                "Tag '" \o name \o "' already exists.")
    ELSE InsertTag("do_admin_tag_create", cred, name, 302)

(* db.delete(tag); commit *)
DeleteTag(op, cred, t, deleted) ==
    /\ tags' = IF TagDeletable(t) THEN {x \in tags : x.id # t} ELSE tags
    /\ UNCHANGED <<users, organizers, events, event_tags, bookmarks, audit>>
    /\ last' = Response(op, cred, [t |-> t],
                        IF TagDeletable(t) THEN deleted ELSE 500,
                        IF TagDeletable(t) THEN ""
                        ELSE "Internal Server Error")

(* DELETE /api/v1/tags/{tag_id}: delete_tag. *)
delete_tag(cred, t) ==
    IF require_admin(cred) # 0
    THEN Answer("delete_tag", cred, [t |-> t], require_admin(cred),
                GateDetail(cred))
    ELSE IF t \notin TagIds
    THEN Answer("delete_tag", cred, [t |-> t], 404, "Tag not found")
    ELSE DeleteTag("delete_tag", cred, t, 204)

(* POST /admin/tags/{tag_id}/delete: do_admin_tag_delete. *)
do_admin_tag_delete(cred, t) ==
    IF _require_admin(get_current_user_cookie(cred)) # 0
    THEN Answer("do_admin_tag_delete", cred, [t |-> t], 403,
                "Admin access required")
    ELSE IF t \notin TagIds
    THEN Answer("do_admin_tag_delete", cred, [t |-> t], 302, "/admin/tags")
    ELSE DeleteTag("do_admin_tag_delete", cred, t, 302)

(* db.add(Organizer(...)); commit *)
InsertOrganizer(op, cred, name, created) ==
    LET newOrgs == organizers
                      \cup {[id |-> NextId(OrganizerIds), name |-> name]}
        ok == NameUnique(newOrgs)
    IN  /\ organizers' = IF ok THEN newOrgs ELSE organizers
        /\ UNCHANGED <<users, tags, events, event_tags, bookmarks, audit>>
        /\ last' = Response(op, cred, [name |-> name],
                            IF ok THEN created ELSE 500,
                            IF ok THEN "Created"
                            ELSE "Internal Server Error")

(* POST /api/v1/organizers: create_organizer. *)
create_organizer(cred, name) ==
    IF require_admin(cred) # 0
    THEN Answer("create_organizer", cred, <<>>, require_admin(cred),
                GateDetail(cred))
    ELSE InsertOrganizer("create_organizer", cred, name, 201)

(* POST /admin/organizers: do_admin_organizer_create. *)
do_admin_organizer_create(cred, name) ==
    IF _require_admin(get_current_user_cookie(cred)) # 0
    THEN Answer("do_admin_organizer_create", cred, <<>>, 403,
                "Admin access required")
    ELSE IF \E o \in organizers : o.name = name
    THEN Answer("do_admin_organizer_create", cred, [name |-> name], 400,
                "Organizer '" \o name \o "' already exists.")
    ELSE InsertOrganizer("do_admin_organizer_create", cred, name, 302)

(***************************************************************************)
(* Users and bookmarks.  Each handler is its checks, made when the         *)
(* request loads, and its commit; a sequential request runs both in one    *)
(* step, a concurrent one commits in a later step.                         *)
(***************************************************************************)
(* do_register up to the insert: 400 when the email is taken, else 0. *)
RegisterCheck(email) ==
    IF \E u \in users : u.email = email THEN 400 ELSE 0

(* db.add(User(email, role="user")); commit *)
RegisterCommit(email) ==
    LET newUsers == users \cup {[id |-> NextId(UserIds), email |-> email,
                                 role |-> "user"]}
        ok == EmailUnique(newUsers)
    IN  /\ users' = IF ok THEN newUsers ELSE users
        /\ UNCHANGED <<tags, organizers, events, event_tags, bookmarks,
                       audit>>
        /\ last' = Response("do_register", None, [email |-> email],
                            IF ok THEN 302 ELSE 500,
                            IF ok THEN "/" ELSE "Internal Server Error")

(* POST /register: do_register. *)
do_register(email) ==
    IF RegisterCheck(email) # 0
    THEN Answer("do_register", None, [email |-> email], 400,
                "Email already registered.")
    ELSE RegisterCommit(email)

(* db.add(Bookmark(user_id, event_id)); commit *)
BookmarkCommit(op, cred, uid, e, created, detail) ==
    LET newRows == Append(bookmarks, <<uid, e>>)
        ok == PrimaryKeyOk(newRows) /\ BookmarkFkOk(newRows)
    IN  /\ bookmarks' = IF ok THEN newRows ELSE bookmarks
        /\ UNCHANGED <<users, tags, organizers, events, event_tags, audit>>
        /\ last' = Response(op, cred, [e |-> e],
                            IF ok THEN created ELSE 500,
                            IF ok THEN detail ELSE "Internal Server Error")

Bookmarked(uid, e) == <<uid, e>> \in Range(bookmarks)

(* add_bookmark of bookmark_route.py up to the insert. *)
BookmarkCheck(cred, e) ==
    IF get_current_user(cred) = None THEN 401
    ELSE IF e \notin EventIds THEN 404
    ELSE IF Bookmarked(get_current_user(cred)[1].id, e) THEN 409
    ELSE 0

BookmarkCheckDetail(cred, status) ==
    CASE status = 401 -> GateDetail(cred)
      [] status = 404 -> "Event not found"
      [] OTHER -> "Already bookmarked"

(* POST /api/v1/bookmarks/{event_id}: add_bookmark. *)
add_bookmark(cred, e) ==
    IF BookmarkCheck(cred, e) # 0
    THEN Answer("add_bookmark", cred, [e |-> e], BookmarkCheck(cred, e),
                BookmarkCheckDetail(cred, BookmarkCheck(cred, e)))
    ELSE BookmarkCommit("add_bookmark", cred,
                        get_current_user(cred)[1].id, e, 201, "Created")

(* POST /bookmarks/{event_id} of frontend_route.py: add_bookmark. *)
frontend_add_bookmark(cred, e) ==
    IF get_current_user_cookie(cred) = None
    THEN Answer("frontend_add_bookmark", cred, [e |-> e], 302, "/login")
    ELSE IF Bookmarked(get_current_user_cookie(cred)[1].id, e)
    THEN Answer("frontend_add_bookmark", cred, [e |-> e], 302, "/event")
    ELSE BookmarkCommit("frontend_add_bookmark", cred,
                        get_current_user_cookie(cred)[1].id, e, 302,
                        "/event")

(***************************************************************************)
(* Inputs.                                                                 *)
(***************************************************************************)
TitleChoices == {None, Some("a"), Some("b")}
DescriptionChoices == {None, Some("d")}
PriceChoices == {Some(Dec(10, 0)), Some(Dec(1000, 2)), Some(Dec(1250, 2))}
TagChoices == {Some(<<>>), Some(<<2, 3>>), Some(<<3, 4>>)}

(* A request body: the function from the keys it carries to their values;
   keys maps every key to <<>> (not sent) or <<value>>. *)
Body(keys) == [f \in {k \in DOMAIN keys : keys[k] # <<>>} |-> keys[f][1]]

Optional(S) == {<<>>} \cup {<<x>> : x \in S}

(* The PATCH bodies: any two or fewer of the keys, each with one of its
   values. *)
PatchPayloads ==
    {Body(k) : k \in
        {r \in [title : Optional(TitleChoices),
                description : Optional(DescriptionChoices),
                price : Optional(PriceChoices),
                tag_ids : Optional(TagChoices)] :
            Cardinality({f \in DOMAIN r : r[f] # <<>>}) <= 2}}

(* PATCH bodies about the tags: tag_ids not sent, null or a selection, with
   or without a title. *)
TagPatchPayloads ==
    {Body(k) : k \in [title : Optional({Some("b")}),
                      tag_ids : Optional(TagChoices \cup {None})]}

(* The edit forms. *)
EditForms ==
    [title : {"a", "b"}, organizer_id : {1}, price : {Dec(1000, 2)},
     city_id : {Some(1)}, description : {None}, is_online : {None},
     tag_ids : TagChoices \cup {None}]

Credentials == {NoToken, Token(1), Token(2)}
EventKeys == {1, 2}
EventKeys3 == {1, 2, 3}

(***************************************************************************)
(* Initial store: the bootstrap admin, one registered user, three tags,    *)
(* one organizer and one event tagged 1 and 2.                             *)
(***************************************************************************)
InitialEvent ==
    [title |-> Some("a"), description |-> None, price |-> Some(Dec(1000, 2)),
     organizer_id |-> Some(1), city_id |-> Some(1),
     is_online |-> Some(FALSE), image_url |-> None, created_at |-> Some(0),
     updated_at |-> None]

Init ==
    /\ users = {[id |-> 1, email |-> "admin@admin.com", role |-> "admin"],
                [id |-> 2, email |-> "u@x", role |-> "user"]}
    /\ tags = {[id |-> 1, name |-> "t1"], [id |-> 2, name |-> "t2"],
               [id |-> 3, name |-> "t3"]}
    /\ organizers = {[id |-> 1, name |-> "o1"]}
    /\ cities = {[id |-> 1, name |-> "c1"]}
    /\ events = (1 :> InitialEvent)
    /\ event_tags = <<<<1, 1>>, <<1, 2>>>>
    /\ bookmarks = <<>>
    /\ audit = <<>>
    /\ sessions = <<>>
    /\ objects = {}
    /\ last = NoRequest
    /\ nops = 0

(* One request at a time: the API's event update. *)
Patch ==
    /\ nops < MaxOps
    /\ nops' = nops + 1
    /\ UNCHANGED <<sessions, cities, objects>>
    /\ \E cred \in Credentials, e \in EventKeys :
          update_event(cred, e, PatchPayloads)

Next == Patch

Spec == Init /\ [][Next]_vars

(***************************************************************************)
(* SpecForm: the two update handlers, on a store with a second event.      *)
(***************************************************************************)
InitForm ==
    /\ users = {[id |-> 1, email |-> "admin@admin.com", role |-> "admin"],
                [id |-> 2, email |-> "u@x", role |-> "user"]}
    /\ tags = {[id |-> 1, name |-> "t1"], [id |-> 2, name |-> "t2"],
               [id |-> 3, name |-> "t3"]}
    /\ organizers = {[id |-> 1, name |-> "o1"]}
    /\ cities = {[id |-> 1, name |-> "c1"]}
    /\ events = (1 :> InitialEvent) @@ (2 :> InitialEvent)
    /\ event_tags = <<<<1, 1>>, <<1, 2>>, <<2, 1>>>>
    /\ bookmarks = <<>>
    /\ audit = <<>>
    /\ sessions = <<>>
    /\ objects = {}
    /\ last = NoRequest
    /\ nops = 0

PatchTags ==
    /\ nops < MaxOps
    /\ nops' = nops + 1
    /\ UNCHANGED <<sessions, cities, objects>>
    /\ \E cred \in {Token(1), Token(2)}, e \in EventKeys3 :
          update_event(cred, e, TagPatchPayloads)

FormEdit ==
    /\ nops < MaxOps
    /\ nops' = nops + 1
    /\ UNCHANGED <<sessions, cities, objects>>
    /\ \E cred \in {Token(1), Token(2)}, e \in EventKeys3 :
          do_admin_event_edit(cred, e, EditForms)

NextForm == PatchTags \/ FormEdit

SpecForm == InitForm /\ [][NextForm]_vars

(***************************************************************************)
(* SpecGate: every admin-only mutation of both surfaces, from anonymous,   *)
(* non-admin and admin callers.                                            *)
(***************************************************************************)
GateCredentials == {NoToken, BadToken(1), Token(1), Token(2)}

(* tag_ids of the API form: "", "1, 2" and "x". *)
TagIdStrings == {<<>>, << <<"1">>, <<" ", "2">> >>, << <<"x">> >>}

ApiCreateForms ==
    [title : {"n"}, organizer_id : {1, 9}, price : {Dec(5, 0)},
     city_id : {None}, description : {None}, is_online : {FALSE},
     tag_ids : TagIdStrings]

PageCreateForms ==
    [title : {"n"}, organizer_id : {1}, price : {Dec(5, 0)},
     city_id : {Some(1)}, description : {None}, is_online : {Some("true")},
     tag_ids : {<<>>, <<1, 1>>}]

GatePayloads == {Body([title |-> Some(Some("b")), description |-> None,
                       price |-> None, tag_ids |-> None])}

GateForms ==
    [title : {"b"}, organizer_id : {1}, price : {Dec(1000, 2)},
     city_id : {Some(1)}, description : {None}, is_online : {None},
     tag_ids : {None}]

TagNames == {"t1", "t9"}
TagKeys == {3, 9}
OrganizerNames == {"o1", "o9"}

(* One sequential request. *)
Request(handler) ==
    /\ nops < MaxOps
    /\ nops' = nops + 1
    /\ UNCHANGED <<sessions, cities, objects>>
    /\ handler

ApiCreateEvent ==
    Request(\E cred \in GateCredentials, form \in ApiCreateForms :
                create_event(cred, form))

ApiUpdateEvent ==
    Request(\E cred \in GateCredentials, e \in EventKeys :
                update_event(cred, e, GatePayloads))

ApiDeleteEvent ==
    Request(\E cred \in GateCredentials, e \in EventKeys :
                delete_event(cred, e))

ApiCreateTag ==
    Request(\E cred \in GateCredentials, name \in TagNames :
                create_tag(cred, name))

ApiDeleteTag ==
    Request(\E cred \in GateCredentials, t \in TagKeys :
                delete_tag(cred, t))

ApiCreateOrganizer ==
    Request(\E cred \in GateCredentials, name \in OrganizerNames :
                create_organizer(cred, name))

PageCreateEvent ==
    Request(\E cred \in GateCredentials, form \in PageCreateForms :
                do_admin_event_create(cred, form))

PageEditEvent ==
    Request(\E cred \in GateCredentials, e \in EventKeys :
                do_admin_event_edit(cred, e, GateForms))

PageDeleteEvent ==
    Request(\E cred \in GateCredentials, e \in EventKeys :
                do_admin_event_delete(cred, e))

PageCreateTag ==
    Request(\E cred \in GateCredentials, name \in TagNames :
                do_admin_tag_create(cred, name))

PageDeleteTag ==
    Request(\E cred \in GateCredentials, t \in TagKeys :
                do_admin_tag_delete(cred, t))

PageCreateOrganizer ==
    Request(\E cred \in GateCredentials, name \in OrganizerNames :
                do_admin_organizer_create(cred, name))

NextGate ==
    \/ ApiCreateEvent \/ ApiUpdateEvent \/ ApiDeleteEvent
    \/ ApiCreateTag \/ ApiDeleteTag \/ ApiCreateOrganizer
    \/ PageCreateEvent \/ PageEditEvent \/ PageDeleteEvent
    \/ PageCreateTag \/ PageDeleteTag \/ PageCreateOrganizer

SpecGate == Init /\ [][NextGate]_vars

(***************************************************************************)
(* SpecDup: the creation handlers whose table has a unique key.            *)
(***************************************************************************)
Emails == {"u@x", "n@x"}

Register == Request(\E email \in Emails : do_register(email))

ApiAddBookmark ==
    Request(\E cred \in Credentials, e \in EventKeys : add_bookmark(cred, e))

PageAddBookmark ==
    Request(\E cred \in Credentials, e \in EventKeys :
                frontend_add_bookmark(cred, e))

NextDup ==
    \/ Register \/ ApiAddBookmark \/ PageAddBookmark
    \/ ApiCreateTag \/ PageCreateTag
    \/ ApiCreateOrganizer \/ PageCreateOrganizer

SpecDup == Init /\ [][NextDup]_vars

(***************************************************************************)
(* SpecConc: requests in flight together.  A request loads (its gate, its  *)
(* queries, the row it edits) in one step and commits in a later one;      *)
(* sessions holds the requests that have loaded and not yet committed.     *)
(***************************************************************************)
Slots == {1, 2}

ConcPayloads ==
    {Body([title |-> Some(Some(t)), description |-> None, price |-> None,
           tag_ids |-> None]) : t \in {"a", "b", "c"}}
    \cup {Body([title |-> None, description |-> None, price |-> None,
                tag_ids |-> Some(Some(<<2, 2>>))])}

Pending(op, cred, req, snap) ==
    [op |-> op, cred |-> cred, req |-> req, snap |-> snap]

(* The request is in flight in the lowest free slot. *)
Open(pending) ==
    /\ sessions' = (NextId(DOMAIN sessions) :> pending) @@ sessions
    /\ UNCHANGED <<dbvars, last>>

Load(handler) ==
    /\ nops < MaxOps
    /\ Cardinality(DOMAIN sessions) < Cardinality(Slots)
    /\ nops' = nops + 1
    /\ UNCHANGED objects
    /\ handler

(* update_event up to db.get(Event, event_id). *)
update_event_load(cred, e, p) ==
    IF require_admin(cred) # 0
    THEN /\ Answer("update_event", cred, [e |-> e], require_admin(cred),
                   GateDetail(cred))
         /\ UNCHANGED sessions
    ELSE IF e \notin EventIds
    THEN /\ Answer("update_event", cred, [e |-> e], 404, "Event not found")
         /\ UNCHANGED sessions
    ELSE Open(Pending("update_event", cred, [e |-> e, p |-> p], events[e]))

LoadUpdate ==
    Load(\E cred \in {Token(1)}, e \in EventKeys, p \in ConcPayloads :
             update_event_load(cred, e, p))

add_bookmark_load(cred, e) ==
    IF BookmarkCheck(cred, e) # 0
    THEN /\ Answer("add_bookmark", cred, [e |-> e], BookmarkCheck(cred, e),
                   BookmarkCheckDetail(cred, BookmarkCheck(cred, e)))
         /\ UNCHANGED sessions
    ELSE Open(Pending("add_bookmark", cred,
                      [e |-> e, uid |-> get_current_user(cred)[1].id], None))

LoadBookmark ==
    Load(\E cred \in {NoToken, Token(2)}, e \in EventKeys :
             add_bookmark_load(cred, e))

do_register_load(email) ==
    IF RegisterCheck(email) # 0
    THEN /\ Answer("do_register", None, [email |-> email], 400,
                   "Email already registered.")
         /\ UNCHANGED sessions
    ELSE Open(Pending("do_register", None, [email |-> email], None))

LoadRegister == Load(\E email \in Emails : do_register_load(email))

(* The rest of the handler of the request in slot s. *)
CommitOf(s) ==
    LET q == sessions[s]
    IN  CASE q.op = "update_event" ->
               PatchCommit(q.cred, q.req.e, q.req.p, q.snap)
          [] q.op = "add_bookmark" ->
               BookmarkCommit("add_bookmark", q.cred, q.req.uid, q.req.e,
                              201, "Created")
          [] OTHER -> RegisterCommit(q.req.email)

Commit ==
    \E s \in DOMAIN sessions :
        /\ CommitOf(s)
        /\ sessions' = [x \in DOMAIN sessions \ {s} |-> sessions[x]]
        /\ UNCHANGED <<nops, cities, objects>>

NextConc == LoadUpdate \/ LoadBookmark \/ LoadRegister \/ Commit

SpecConc == Init /\ [][NextConc]_vars

(***************************************************************************)
(* Event listing: list_events (GET /api/v1/events) and page_index (GET /). *)
(* A query is [search, city_id, organizer_id, is_online, tag_id], each the *)
(* raw text of the parameter or None when it is absent.                    *)
(***************************************************************************)
Chars(str) == [i \in 1..Len(str) |-> SubSeq(str, i, i)]

UpperCase == <<"A", "B", "C", "D", "E", "F", "G", "H", "I", "J", "K", "L", "M",
               "N", "O", "P", "Q", "R", "S", "T", "U", "V", "W", "X", "Y", "Z">>
LowerCase == <<"a", "b", "c", "d", "e", "f", "g", "h", "i", "j", "k", "l", "m",
               "n", "o", "p", "q", "r", "s", "t", "u", "v", "w", "x", "y", "z">>

Lower(ch) == IF \E i \in 1..26 : UpperCase[i] = ch
             THEN LowerCase[CHOOSE i \in 1..26 : UpperCase[i] = ch]
             ELSE ch

(* text ILIKE pat: % is any run of characters, _ any one character. *)
RECURSIVE ILikeChars(_, _)
ILikeChars(pat, text) ==
    IF pat = <<>> THEN text = <<>>
    ELSE IF Head(pat) = "%"
    THEN \E k \in 0..Len(text) :
            ILikeChars(Tail(pat), SubSeq(text, k + 1, Len(text)))
    ELSE /\ text # <<>>
         /\ Head(pat) = "_" \/ Lower(Head(pat)) = Lower(Head(text))
         /\ ILikeChars(Tail(pat), Tail(text))

(* Event.<column>.ilike(f"%{search}%"): NULL, hence not true, on a NULL
   column. *)
ILike(col, search) ==
    col # None /\ ILikeChars(Chars("%" \o search \o "%"), Chars(col[1]))

(* The query-parameter validation of an Optional[int]: [ok, value]. *)
QueryInt(raw) ==
    IF raw = None THEN [ok |-> TRUE, value |-> None]
    ELSE IF IsDigit(Chars(raw[1]))
    THEN [ok |-> TRUE, value |-> Some(ToInt(Chars(raw[1])))]
    ELSE [ok |-> FALSE, value |-> None]

BoolTrue == {"1", "on", "t", "true", "y", "yes"}
BoolFalse == {"0", "off", "f", "false", "n", "no"}

(* The query-parameter validation of an Optional[bool]: [ok, value]. *)
QueryBool(raw) ==
    IF raw = None THEN [ok |-> TRUE, value |-> None]
    ELSE IF raw[1] \in BoolTrue THEN [ok |-> TRUE, value |-> Some(TRUE)]
    ELSE IF raw[1] \in BoolFalse THEN [ok |-> TRUE, value |-> Some(FALSE)]
    ELSE [ok |-> FALSE, value |-> None]

(* x and x.strip() of an Optional[str] parameter. *)
NonBlank(raw) == raw # None /\ Strip(Chars(raw[1])) # <<>>

(* int(x) of a text: [ok, value], not ok where it raises ValueError. *)
PyInt(str) ==
    LET t == Strip(Chars(str))
    IN  IF IsDigit(t) THEN [ok |-> TRUE, value |-> ToInt(t)]
        ELSE IF t # <<>> /\ Head(t) \in {"+", "-"} /\ IsDigit(Tail(t))
        THEN [ok |-> TRUE,
              value |-> IF Head(t) = "-" THEN 0 - ToInt(Tail(t))
                        ELSE ToInt(Tail(t))]
        ELSE [ok |-> FALSE, value |-> 0]

(* int(x) if x and x.strip() else None: [ok, value]. *)
IntOrNone(raw) ==
    IF ~NonBlank(raw) THEN [ok |-> TRUE, value |-> None]
    ELSE [ok |-> PyInt(raw[1]).ok, value |-> Some(PyInt(raw[1]).value)]

(* A parameter as the handler holds it: its Python type and its value. *)
PyStr(raw) == IF raw = None THEN None
              ELSE Some([type |-> "str", value |-> raw[1]])
PyBool(b) == IF b = None THEN None
             ELSE Some([type |-> "bool", bool |-> b[1]])

(* x == "literal" in Python: a bool never equals a str. *)
EqualsStr(x, literal) ==
    x # None /\ x[1].type = "str" /\ x[1].value = literal

(* True if is_online == "true" else (False if is_online == "false" else
   None), and page_index's if/elif on the same comparisons. *)
OnlineFilter(x) ==
    IF EqualsStr(x, "true") THEN Some(TRUE)
    ELSE IF EqualsStr(x, "false") THEN Some(FALSE)
    ELSE None

(* The rows of the SELECT: each event that passes the WHERE clauses, once
   per joined EventTag row when a tag filter joins event_tags.  A filter is
   None when it is not applied. *)
SelectEvents(search, city, organizer, online, tag) ==
    LET pass(e) ==
            /\ (search # None /\ search[1] # "") =>
                  \/ ILike(events[e].title, search[1])
                  \/ ILike(events[e].description, search[1])
            /\ city # None => events[e].city_id = city
            /\ organizer # None => events[e].organizer_id = organizer
            /\ online # None => events[e].is_online = online
        joined(e) == IF tag = None THEN 1
                     ELSE Cardinality({i \in 1..Len(event_tags) :
                                          event_tags[i] = <<e, tag[1]>>})
    IN  [e \in {x \in EventIds : pass(x) /\ joined(x) > 0} |-> joined(e)]

ListResponse(op, q, status, detail) ==
    /\ last' = Response(op, None, q, status, detail)
    /\ UNCHANGED dbvars

(* GET /api/v1/events: list_events. *)
list_events(q) ==
    LET city == QueryInt(q.city_id)
        flag == QueryBool(q.is_online)
        organizer == IntOrNone(q.organizer_id)
        tag == IntOrNone(q.tag_id)
    IN  IF ~city.ok \/ ~flag.ok
        THEN ListResponse("list_events", q, 422, "Unprocessable Entity")
        ELSE IF city.value # None /\ city.value # Some(0)
        THEN (* city_id.strip() of an int: AttributeError *)
             ListResponse("list_events", q, 500, "Internal Server Error")
        ELSE IF ~organizer.ok \/ ~tag.ok
        THEN ListResponse("list_events", q, 500, "Internal Server Error")
        ELSE ListResponse("list_events", q, 200,
                 SelectEvents(q.search, None, organizer.value,
                              OnlineFilter(PyBool(flag.value)), tag.value))

(* if _organizer_id: / if _tag_id: a zero applies no filter. *)
Truthy(x) == IF x = Some(0) THEN None ELSE x

(* GET /: page_index (the events of the page). *)
page_index(q) ==
    LET organizer == IntOrNone(q.organizer_id)
        tag == IntOrNone(q.tag_id)
    IN  IF ~organizer.ok \/ ~tag.ok
        THEN ListResponse("page_index", q, 500, "Internal Server Error")
        ELSE ListResponse("page_index", q, 200,
                 SelectEvents(q.search, None, Truthy(organizer.value),
                              OnlineFilter(PyStr(q.is_online)),
                              Truthy(tag.value)))

(***************************************************************************)
(* SpecList: listings of a store of three events, A (city 1, online,       *)
(* tags 1 and 2), B (city 1, not online, tag 2) and C (city 2, online, no  *)
(* tag, organizer 2).                                                      *)
(***************************************************************************)
ListedEvent(title, description, organizer, city, online) ==
    [InitialEvent EXCEPT !.title = Some(title), !.description = description,
                         !.organizer_id = Some(organizer),
                         !.city_id = Some(city),
                         !.is_online = Some(online)]

InitList ==
    /\ users = {[id |-> 1, email |-> "admin@admin.com", role |-> "admin"],
                [id |-> 2, email |-> "u@x", role |-> "user"]}
    /\ tags = {[id |-> 1, name |-> "t1"], [id |-> 2, name |-> "t2"],
               [id |-> 3, name |-> "t3"]}
    /\ organizers = {[id |-> 1, name |-> "o1"], [id |-> 2, name |-> "o2"]}
    /\ cities = {[id |-> 1, name |-> "c1"], [id |-> 2, name |-> "c2"]}
    /\ events = (1 :> ListedEvent("Ab", None, 1, 1, TRUE))
                @@ (2 :> ListedEvent("b", Some("xA"), 1, 1, FALSE))
                @@ (3 :> ListedEvent("c", Some("d"), 2, 2, TRUE))
    /\ event_tags = <<<<1, 1>>, <<1, 2>>, <<2, 2>>>>
    /\ bookmarks = <<>>
    /\ audit = <<>>
    /\ sessions = <<>>
    /\ objects = {}
    /\ last = NoRequest
    /\ nops = 0

ApiQueries ==
    [search : {None, Some("a")}, city_id : {None, Some("0"), Some("1")},
     organizer_id : {None, Some("2"), Some("x")},
     is_online : {None, Some("true"), Some("false"), Some("maybe")},
     tag_id : {None, Some("2")}]

PageQueries ==
    [search : {None, Some("a"), Some("_b")}, city_id : {None},
     organizer_id : {None, Some(" 1"), Some("0")},
     is_online : {None, Some("true"), Some("false"), Some("yes")},
     tag_id : {None, Some("2"), Some("x")}]

ApiList == Request(\E q \in ApiQueries : list_events(q))

PageList == Request(\E q \in PageQueries : page_index(q))

NextList == ApiList \/ PageList

SpecList == InitList /\ [][NextList]_vars

(***************************************************************************)
(* Referential actions of the schema.  No handler deletes a City, an       *)
(* Organizer or a User: such a row is deleted by a DELETE statement on its *)
(* table, and the database applies the ondelete action that each foreign   *)
(* key referencing the table declares.                                     *)
(***************************************************************************)
(* Mutant: the city reference of an event restricts the deletion. *)
EventCityRestrict == [ondelete |-> "RESTRICT", nullable |-> TRUE]

(* Event.city_id: ForeignKey("cities.id", ondelete="SET NULL"),
   nullable=True *)
EventCity == [ondelete |-> "SET NULL", nullable |-> TRUE]

(* Mutant: the organizer reference of an event restricts the deletion. *)
EventOrganizerRestrict == [ondelete |-> "RESTRICT", nullable |-> FALSE]

(* Event.organizer_id: ForeignKey("organizers.id", ondelete="CASCADE"),
   nullable=False *)
EventOrganizer == [ondelete |-> "CASCADE", nullable |-> FALSE]

(* Bookmark.user_id: ForeignKey("users.id", ondelete="CASCADE"),
   primary_key=True *)
BookmarkUser == [ondelete |-> "CASCADE", nullable |-> FALSE]

(* Mutant: the audit rows of a deleted user are deleted with the user. *)
AuditUserCascade == [ondelete |-> "CASCADE", nullable |-> TRUE]

(* EventAuditLog.changed_by: ForeignKey("users.id", ondelete="SET NULL"),
   nullable=True *)
AuditUser == [ondelete |-> "SET NULL", nullable |-> TRUE]

(* Whether foreign key fk lets a row be deleted: a row that is referenced
   goes only if the references cascade or can be set to null. *)
Allowed(fk, referenced) ==
    \/ ~referenced
    \/ fk.ondelete = "CASCADE"
    \/ fk.ondelete = "SET NULL" /\ fk.nullable

(* The events whose column col references key. *)
Referencing(col, key) == {e \in EventIds : events[e][col] = Some(key)}

(* The events left when the row key that column col references is deleted
   under fk, and what is left of the tables that reference events:
   EventTag.event_id, Bookmark.event_id and EventAuditLog.event_id are
   all ondelete="CASCADE". *)
DeleteReferenced(fk, col, key) ==
    LET kept == IF fk.ondelete = "CASCADE"
                THEN EventIds \ Referencing(col, key) ELSE EventIds
    IN  /\ events' = [e \in kept |->
                        IF fk.ondelete = "SET NULL"
                           /\ e \in Referencing(col, key)
                        THEN [events[e] EXCEPT ![col] = None]
                        ELSE events[e]]
        /\ event_tags' = SelectSeq(event_tags, LAMBDA r : r[1] \in kept)
        /\ bookmarks' = SelectSeq(bookmarks, LAMBDA r : r[2] \in kept)
        /\ audit' = SelectSeq(audit, LAMBDA r : r.event_id \in kept)

(* The answer of a statement: the number of rows deleted, or the error. *)
Deleted(table, key, detail) ==
    Response(table, None, [id |-> key], 0, detail)

(* DELETE FROM cities WHERE id = c *)
DeleteCity(c) ==
    IF c \notin CityIds
    THEN /\ last' = Deleted("cities", c, "DELETE 0")
         /\ UNCHANGED dbvars
    ELSE IF ~Allowed(EventCity, Referencing("city_id", c) # {})
    THEN /\ last' = Deleted("cities", c, "IntegrityError")
         /\ UNCHANGED dbvars
    ELSE /\ cities' = {x \in cities : x.id # c}
         /\ DeleteReferenced(EventCity, "city_id", c)
         /\ UNCHANGED <<users, tags, organizers>>
         /\ last' = Deleted("cities", c, "DELETE 1")

(* DELETE FROM organizers WHERE id = o *)
DeleteOrganizer(o) ==
    IF o \notin OrganizerIds
    THEN /\ last' = Deleted("organizers", o, "DELETE 0")
         /\ UNCHANGED dbvars
    ELSE IF ~Allowed(EventOrganizer, Referencing("organizer_id", o) # {})
    THEN /\ last' = Deleted("organizers", o, "IntegrityError")
         /\ UNCHANGED dbvars
    ELSE /\ organizers' = {x \in organizers : x.id # o}
         /\ DeleteReferenced(EventOrganizer, "organizer_id", o)
         /\ UNCHANGED <<users, tags, cities>>
         /\ last' = Deleted("organizers", o, "DELETE 1")

(* The bookmarks left when user u is deleted. *)
BookmarksAfterUser(u) ==
    IF BookmarkUser.ondelete = "CASCADE"
    THEN SelectSeq(bookmarks, LAMBDA r : r[1] # u)
    ELSE bookmarks

(* The audit rows left when user u is deleted. *)
AuditAfterUser(u) ==
    IF AuditUser.ondelete = "CASCADE"
    THEN SelectSeq(audit, LAMBDA r : r.changed_by # Some(u))
    ELSE IF AuditUser.ondelete = "SET NULL"
    THEN [i \in DOMAIN audit |->
            IF audit[i].changed_by = Some(u)
            THEN [audit[i] EXCEPT !.changed_by = None] ELSE audit[i]]
    ELSE audit

(* DELETE FROM users WHERE id = u *)
DeleteUser(u) ==
    IF u \notin UserIds
    THEN /\ last' = Deleted("users", u, "DELETE 0")
         /\ UNCHANGED dbvars
    ELSE IF \/ ~Allowed(BookmarkUser, \E r \in Range(bookmarks) : r[1] = u)
            \/ ~Allowed(AuditUser,
                        \E r \in Range(audit) : r.changed_by = Some(u))
    THEN /\ last' = Deleted("users", u, "IntegrityError")
         /\ UNCHANGED dbvars
    ELSE /\ users' = {x \in users : x.id # u}
         /\ bookmarks' = BookmarksAfterUser(u)
         /\ audit' = AuditAfterUser(u)
         /\ UNCHANGED <<tags, organizers, cities, events, event_tags>>
         /\ last' = Deleted("users", u, "DELETE 1")

(***************************************************************************)
(* SpecStore: the deletions, on a store where every table has rows that    *)
(* reference the deleted row and rows that do not.                         *)
(***************************************************************************)
InitStore ==
    /\ users = {[id |-> 1, email |-> "admin@admin.com", role |-> "admin"],
                [id |-> 2, email |-> "u@x", role |-> "user"],
                [id |-> 3, email |-> "b@x", role |-> "admin"]}
    /\ tags = {[id |-> 1, name |-> "t1"], [id |-> 2, name |-> "t2"],
               [id |-> 3, name |-> "t3"]}
    /\ organizers = {[id |-> 1, name |-> "o1"], [id |-> 2, name |-> "o2"]}
    /\ cities = {[id |-> 1, name |-> "c1"], [id |-> 2, name |-> "c2"]}
    /\ events = (1 :> ListedEvent("Ab", None, 1, 1, TRUE))
                @@ (2 :> ListedEvent("b", Some("xA"), 1, 1, FALSE))
                @@ (3 :> ListedEvent("c", Some("d"), 2, 2, TRUE))
    /\ event_tags = <<<<1, 1>>, <<1, 2>>, <<2, 2>>, <<3, 2>>>>
    /\ bookmarks = <<<<2, 1>>, <<2, 3>>, <<3, 1>>, <<3, 2>>>>
    /\ audit = <<AuditRow(1, 1, "title", Some("x"), Some("Ab")),
                 AuditRow(3, 3, "title", Some("y"), Some("c")),
                 AuditRow(2, 3, "description", None, Some("xA")),
                 AuditRow(3, 1, "description", None, Some("d"))>>
    /\ sessions = <<>>
    /\ objects = {}
    /\ last = NoRequest
    /\ nops = 0

CityKeys == {1, 2, 9}
OrganizerKeys == {1, 2, 9}
UserKeys == {1, 2, 3, 9}

(* One statement sent to the database. *)
Statement(stmt) ==
    /\ nops < MaxOps
    /\ nops' = nops + 1
    /\ UNCHANGED <<sessions, objects>>
    /\ stmt

StoreDeleteCity == Statement(\E c \in CityKeys : DeleteCity(c))

StoreDeleteOrganizer == Statement(\E o \in OrganizerKeys : DeleteOrganizer(o))

StoreDeleteUser == Statement(\E u \in UserKeys : DeleteUser(u))

NextStore ==
    \/ StoreDeleteCity \/ StoreDeleteOrganizer \/ StoreDeleteUser
    \/ ApiDeleteEvent \/ PageDeleteEvent

SpecStore == InitStore /\ [][NextStore]_vars

(***************************************************************************)
(* SpecPrice: the admin creates and updates events on both surfaces with   *)
(* prices of either sign.                                                  *)
(***************************************************************************)
PriceInputs == {Dec(0, 2), Dec(5, 0), Dec(-5, 0), Dec(-1, 2)}

ApiPriceForms ==
    [title : {"n"}, organizer_id : {1}, price : PriceInputs,
     city_id : {None}, description : {None}, is_online : {FALSE},
     tag_ids : {<<>>}]

PagePriceForms ==
    [title : {"n"}, organizer_id : {1}, price : PriceInputs,
     city_id : {Some(1)}, description : {None}, is_online : {None},
     tag_ids : {<<>>}]

PricePayloads == {Body([price |-> Some(Some(p))]) : p \in PriceInputs}

EditPriceForms ==
    [title : {"a"}, organizer_id : {1}, price : PriceInputs,
     city_id : {Some(1)}, description : {None}, is_online : {None},
     tag_ids : {None}]

ApiCreatePriced ==
    Request(\E form \in ApiPriceForms : create_event(Token(1), form))

PageCreatePriced ==
    Request(\E form \in PagePriceForms :
                do_admin_event_create(Token(1), form))

ApiUpdatePrice ==
    Request(\E e \in EventKeys : update_event(Token(1), e, PricePayloads))

PageEditPrice ==
    Request(\E e \in EventKeys :
                do_admin_event_edit(Token(1), e, EditPriceForms))

NextPrice ==
    \/ ApiCreatePriced \/ PageCreatePriced \/ ApiUpdatePrice \/ PageEditPrice

SpecPrice == Init /\ [][NextPrice]_vars

(***************************************************************************)
(* Pages that serve any caller: GET /event/{event_id} and GET /login.      *)
(***************************************************************************)
(* A token past its expiry: jwt.decode raises ExpiredSignatureError, a
   JWTError. *)
ExpiredToken(uid) == Some([valid |-> FALSE, sub |-> uid, exp |-> 0])

(* A text that is no JWT: jwt.decode raises JWTError (0 names no user). *)
MalformedToken == Some([valid |-> FALSE, sub |-> 0])

(* get_current_user_optional: the User or None; no handler depends on it. *)
get_current_user_optional(cred) ==
    IF cred = None \/ DecodeSub(cred) = None THEN None
    ELSE GetUser(DecodeSub(cred)[1])

(* page_event_detail: the status and the context of the template, the user
   of the navigation bar and is_bookmarked. *)
EventDetailPage(cred, e) ==
    LET user == get_current_user_cookie(cred)
    IN  IF e \notin EventIds
        THEN [status |-> 404,
              detail |-> [user |-> None, is_bookmarked |-> FALSE]]
        ELSE [status |-> 200,
              detail |-> [user |-> IF user = None THEN None
                                   ELSE Some(user[1].id),
                          is_bookmarked |-> user # None
                                            /\ Bookmarked(user[1].id, e)]]

(* GET /event/{event_id}: page_event_detail. *)
page_event_detail(cred, e) ==
    Answer("page_event_detail", cred, [e |-> e],
           EventDetailPage(cred, e).status, EventDetailPage(cred, e).detail)

(* page_login: a caller who is logged in is sent to the index. *)
LoginPage(cred) ==
    IF get_current_user_cookie(cred) # None
    THEN [status |-> 302, detail |-> "/"]
    ELSE [status |-> 200, detail |-> "login.html"]

(* GET /login: page_login. *)
page_login(cred) ==
    Answer("page_login", cred, <<>>, LoginPage(cred).status,
           LoginPage(cred).detail)

(***************************************************************************)
(* SpecAuth: the endpoints that serve any caller and those that need one,  *)
(* with no token, a good token and tokens that do not validate.            *)
(***************************************************************************)
AuthCredentials ==
    {NoToken, Token(1), Token(2), BadToken(2), ExpiredToken(2),
     MalformedToken}

PageEventDetail ==
    Request(\E cred \in AuthCredentials, e \in EventKeys :
                page_event_detail(cred, e))

PageLogin == Request(\E cred \in AuthCredentials : page_login(cred))

ApiBookmark ==
    Request(\E cred \in AuthCredentials, e \in EventKeys :
                add_bookmark(cred, e))

PageBookmark ==
    Request(\E cred \in AuthCredentials, e \in EventKeys :
                frontend_add_bookmark(cred, e))

NextAuth == PageEventDetail \/ PageLogin \/ ApiBookmark \/ PageBookmark

SpecAuth == Init /\ [][NextAuth]_vars

(***************************************************************************)
(* Login, bookmark removal and the bootstrap script.                       *)
(***************************************************************************)
(* POST /login: do_login; verified is whether the password matches the     *)
(* stored hash.  It reads the user and writes nothing. *)
do_login(email, verified) ==
    IF ~(\E u \in users : u.email = email) \/ ~verified
    THEN Answer("do_login", None, [email |-> email], 400,
                "Invalid email or password.")
    ELSE Answer("do_login", None, [email |-> email], 302, "/")

(* Mutant: the bookmarks of event e go, whoever owns them. *)
BookmarkDeleteOfEvent(op, cred, uid, e, status, detail) ==
    /\ bookmarks' = SelectSeq(bookmarks, LAMBDA r : r[2] # e)
    /\ UNCHANGED <<users, tags, organizers, events, event_tags, audit>>
    /\ last' = Response(op, cred, [e |-> e], status, detail)

(* db.delete(bm); commit: the row of user uid and event e goes. *)
BookmarkDelete(op, cred, uid, e, status, detail) ==
    /\ bookmarks' = SelectSeq(bookmarks, LAMBDA r : r # <<uid, e>>)
    /\ UNCHANGED <<users, tags, organizers, events, event_tags, audit>>
    /\ last' = Response(op, cred, [e |-> e], status, detail)

(* DELETE /api/v1/bookmarks/{event_id}: remove_bookmark. *)
remove_bookmark(cred, e) ==
    IF get_current_user(cred) = None
    THEN Answer("remove_bookmark", cred, [e |-> e], 401, GateDetail(cred))
    ELSE IF ~Bookmarked(get_current_user(cred)[1].id, e)
    THEN Answer("remove_bookmark", cred, [e |-> e], 404,
                "Bookmark not found")
    ELSE BookmarkDelete("remove_bookmark", cred,
                        get_current_user(cred)[1].id, e, 204, "")

(* POST /bookmarks/{event_id}/remove of frontend_route.py: remove_bookmark;
   the redirect goes to the referer, by default /bookmarks. *)
frontend_remove_bookmark(cred, e) ==
    IF get_current_user_cookie(cred) = None
    THEN Answer("frontend_remove_bookmark", cred, [e |-> e], 302, "/login")
    ELSE IF ~Bookmarked(get_current_user_cookie(cred)[1].id, e)
    THEN Answer("frontend_remove_bookmark", cred, [e |-> e], 302,
                "/bookmarks")
    ELSE BookmarkDelete("frontend_remove_bookmark", cred,
                        get_current_user_cookie(cred)[1].id, e, 302,
                        "/bookmarks")

(* Mutant: the script adds the admin without looking for the email. *)
create_admin_unchecked ==
    /\ users' = users \cup {[id |-> NextId(UserIds),
                             email |-> "admin@admin.com", role |-> "admin"]}
    /\ UNCHANGED <<tags, organizers, events, event_tags, bookmarks, audit>>
    /\ last' = Response("create_first_admin", None, <<>>, 0, "created")

(* create_admin.py: create_first_admin. *)
create_first_admin ==
    IF \E u \in users : u.email = "admin@admin.com"
    THEN Answer("create_first_admin", None, <<>>, 0, "")
    ELSE /\ users' = users \cup {[id |-> NextId(UserIds),
                                  email |-> "admin@admin.com",
                                  role |-> "admin"]}
         /\ UNCHANGED <<tags, organizers, events, event_tags, bookmarks,
                        audit>>
         /\ last' = Response("create_first_admin", None, <<>>, 0, "created")

(***************************************************************************)
(* SpecUsers: what a visitor can do (register, log in, bookmark, list) and *)
(* the bootstrap script, from a store with one registered user, who has a  *)
(* bookmark, and no admin yet.                                             *)
(***************************************************************************)
InitUsers ==
    /\ users = {[id |-> 1, email |-> "u@x", role |-> "user"]}
    /\ tags = {[id |-> 1, name |-> "t1"], [id |-> 2, name |-> "t2"],
               [id |-> 3, name |-> "t3"]}
    /\ organizers = {[id |-> 1, name |-> "o1"]}
    /\ cities = {[id |-> 1, name |-> "c1"]}
    /\ events = (1 :> InitialEvent)
    /\ event_tags = <<<<1, 1>>, <<1, 2>>>>
    /\ bookmarks = <<<<1, 1>>>>
    /\ audit = <<>>
    /\ sessions = <<>>
    /\ objects = {}
    /\ last = NoRequest
    /\ nops = 0

VisitorEmails == {"admin@admin.com", "u@x", "n@x"}

VisitorQueries ==
    [search : {None, Some("a")}, city_id : {None}, organizer_id : {None},
     is_online : {None}, tag_id : {None}]

Bootstrap == Request(create_first_admin)

VisitorRegister == Request(\E email \in VisitorEmails : do_register(email))

VisitorLogin ==
    Request(\E email \in VisitorEmails, verified \in BOOLEAN :
                do_login(email, verified))

VisitorAddBookmark ==
    Request(\E cred \in Credentials, e \in EventKeys :
                add_bookmark(cred, e) \/ frontend_add_bookmark(cred, e))

VisitorRemoveBookmark ==
    Request(\E cred \in Credentials, e \in EventKeys :
                remove_bookmark(cred, e) \/ frontend_remove_bookmark(cred, e))

VisitorList ==
    Request(\E q \in VisitorQueries : list_events(q) \/ page_index(q))

NextUsers ==
    \/ Bootstrap \/ VisitorRegister \/ VisitorLogin
    \/ VisitorAddBookmark \/ VisitorRemoveBookmark \/ VisitorList

SpecUsers == InitUsers /\ [][NextUsers]_vars

(***************************************************************************)
(* SpecBookmarks: the four bookmark requests of the two surfaces, on the   *)
(* store of SpecStore, where users 2 and 3 have bookmarks.                 *)
(***************************************************************************)
BookmarkCredentials == {NoToken, BadToken(2), Token(2), Token(3)}
BookmarkKeys == {1, 2, 3, 9}

ApiAdd ==
    Request(\E cred \in BookmarkCredentials, e \in BookmarkKeys :
                add_bookmark(cred, e))

PageAdd ==
    Request(\E cred \in BookmarkCredentials, e \in BookmarkKeys :
                frontend_add_bookmark(cred, e))

ApiRemove ==
    Request(\E cred \in BookmarkCredentials, e \in BookmarkKeys :
                remove_bookmark(cred, e))

PageRemove ==
    Request(\E cred \in BookmarkCredentials, e \in BookmarkKeys :
                frontend_remove_bookmark(cred, e))

NextBookmarks == ApiAdd \/ PageAdd \/ ApiRemove \/ PageRemove

SpecBookmarks == InitStore /\ [][NextBookmarks]_vars

(***************************************************************************)
(* SpecNotFound: the requests that name an event (update, delete, fetch,   *)
(* bookmark) on both surfaces, with the id of event 1 and with an id that  *)
(* no event has.                                                           *)
(***************************************************************************)
(* GET /api/v1/event/{event_id}: get_event. *)
get_event(e) ==
    IF e \notin EventIds
    THEN Answer("get_event", None, [e |-> e], 404, "Event not found")
    ELSE Answer("get_event", None, [e |-> e], 200, "OK")

ApiGetEvent == Request(\E e \in EventKeys : get_event(e))

NextNotFound ==
    \/ ApiUpdateEvent \/ ApiDeleteEvent \/ PageEditEvent \/ PageDeleteEvent
    \/ ApiGetEvent \/ PageEventDetail
    \/ ApiAddBookmark \/ PageAddBookmark

SpecNotFound == Init /\ [][NextNotFound]_vars

(***************************************************************************)
(* Images.  objects is the bucket: the set of the keys it holds.  An       *)
(* uploaded file is [filename, content_type, contents]; a request without  *)
(* a file part has image = None.  A request carries, next to its inputs,   *)
(* what its surroundings do while it runs: env.put and env.del say whether *)
(* the bucket accepts the upload and the deletion, env.db whether the      *)
(* database answers at flush and commit.                                   *)
(***************************************************************************)
ALLOWED == {"image/jpeg", "image/png", "image/webp"}

(* f"uploads/{uuid.uuid4()}.{ext}": a key no earlier request has used. *)
ObjectKey == "uploads/" \o NatStr(Now)

(* event.image_url = key, set before db.add(event). *)
WithImage(evs, e, key) == [evs EXCEPT ![e].image_url = key]

(* POST /api/v1/event with the file part of the form. *)
create_event_image(cred, form, image, env) ==
    LET req == [form |-> form, image |-> image, env |-> env]
        uploaded == image # None /\ env.put
        r == FlushCreate(form, ParseTagIds(form.tag_ids))
        ok == r.ok /\ env.db
        key == IF uploaded THEN Some(ObjectKey) ELSE None
    IN  IF require_admin(cred) # 0
        THEN /\ Answer("create_event", cred, req, require_admin(cred),
                       GateDetail(cred))
             /\ UNCHANGED objects
        ELSE IF image # None /\ image[1].content_type \notin ALLOWED
        THEN /\ Answer("create_event", cred, req, 415,
                       "Unsupported file type")
             /\ UNCHANGED objects
        ELSE IF image # None /\ ~env.put
        THEN /\ Answer("create_event", cred, req, 500,
                       "Image upload failed")
             /\ UNCHANGED objects
        ELSE /\ events' = IF ok
                          THEN WithImage(r.events, NextId(EventIds), key)
                          ELSE events
             /\ event_tags' = IF ok THEN r.event_tags ELSE event_tags
             /\ UNCHANGED <<users, tags, organizers, bookmarks, audit>>
             /\ objects' = IF uploaded /\ (ok \/ ~env.del)
                           THEN objects \cup {ObjectKey}
                           ELSE objects
             /\ last' = Response("create_event", cred, req,
                    IF ok THEN 201 ELSE IF ~r.fkOk /\ env.db THEN 400
                    ELSE 500,
                    IF ok THEN "Created"
                    ELSE IF ~r.fkOk /\ env.db
                    THEN "Invalid organizer_id, city_id, or tag_id."
                    ELSE "Database error")

(* POST /admin/events/new with the file input of the form. *)
do_admin_event_create_image(cred, form, image, env) ==
    LET req == [form |-> form, image |-> image, env |-> env]
        sent == image # None /\ image[1].contents # ""
        uploaded == sent /\ env.put
        r == FlushCreate(PageEventValues(form), form.tag_ids)
        ok == r.ok /\ env.db
        key == IF uploaded THEN Some(ObjectKey) ELSE None
    IN  IF _require_admin(get_current_user_cookie(cred)) # 0
        THEN /\ Answer("do_admin_event_create", cred, req, 403,
                       "Admin access required")
             /\ UNCHANGED objects
        ELSE IF /\ image # None /\ image[1].filename # ""
                /\ image[1].content_type \notin ALLOWED
        THEN /\ Answer("do_admin_event_create", cred, req, 400,
                       "Unsupported image type.")
             /\ UNCHANGED objects
        ELSE IF image = None
        THEN /\ Answer("do_admin_event_create", cred, req, 500,
                       "Internal Server Error")
             /\ UNCHANGED objects
        ELSE IF sent /\ image[1].content_type \notin ALLOWED
        THEN /\ Answer("do_admin_event_create", cred, req, 500,
                       "Internal Server Error")
             /\ UNCHANGED objects
        ELSE /\ events' = IF ok
                          THEN WithImage(r.events, NextId(EventIds), key)
                          ELSE events
             /\ event_tags' = IF ok THEN r.event_tags ELSE event_tags
             /\ UNCHANGED <<users, tags, organizers, bookmarks, audit>>
             /\ objects' = IF uploaded THEN objects \cup {ObjectKey}
                           ELSE objects
             /\ last' = Response("do_admin_event_create", cred, req,
                    IF ok THEN 302 ELSE 500,
                    IF ok THEN "/admin/events"
                    ELSE "Internal Server Error")

(* POST /admin/events/{event_id}/edit with the file input of the form. *)
do_admin_event_edit_image(cred, e, form, image, env) ==
    LET req == [e |-> e, form |-> form, image |-> image, env |-> env]
        sent == /\ image # None /\ image[1].filename # ""
                /\ image[1].content_type \in ALLOWED
                /\ image[1].contents # ""
        uploaded == sent /\ env.put
        snap == events[e]
        by == get_current_user_cookie(cred)[1].id
        data == FormUpdates(form)
        rows == AuditDiff(FormUpdateFields, snap, data, e, by)
        obj == [SetAttrs(snap, data) EXCEPT
                   !.image_url = IF uploaded THEN Some(ObjectKey) ELSE @,
                   !.updated_at = Some(Now)]
        r == FlushUpdate(snap, e, obj, rows, Some(FormTagIds(form)))
        ok == r.ok /\ env.db
    IN  IF _require_admin(get_current_user_cookie(cred)) # 0
        THEN /\ Answer("do_admin_event_edit", cred, req, 403,
                       "Admin access required")
             /\ UNCHANGED objects
        ELSE IF e \notin EventIds
        THEN /\ Answer("do_admin_event_edit", cred, req, 404, "Not Found")
             /\ UNCHANGED objects
        ELSE /\ events' = IF ok THEN r.events ELSE events
             /\ event_tags' = IF ok THEN r.event_tags ELSE event_tags
             /\ audit' = IF ok THEN r.audit ELSE audit
             /\ UNCHANGED <<users, tags, organizers, bookmarks>>
             /\ objects' = IF uploaded THEN objects \cup {ObjectKey}
                           ELSE objects
             /\ last' = Response("do_admin_event_edit", cred, req,
                                 IF ok THEN 302 ELSE 500,
                                 IF ok THEN "/admin/events"
                                 ELSE "Internal Server Error")

(* Mutant: the failure of delete_object is not caught. *)
DeleteStoredUncaught(op, cred, e, env, status, detail) ==
    LET req == [e |-> e, env |-> env]
        key == events[e].image_url
        removed == IF key # None /\ env.del THEN {key[1]} ELSE {}
    IN  /\ objects' = objects \ removed
        /\ IF env.db /\ (key = None \/ env.del)
           THEN /\ DeleteEventRows(e)
                /\ last' = Response(op, cred, req, status, detail)
           ELSE /\ UNCHANGED <<users, tags, organizers, events, event_tags,
                               bookmarks, audit>>
                /\ last' = Response(op, cred, req, 500,
                                    "Internal Server Error")

(* if event.image_url: try: delete_object(...) except Exception: pass;
   then db.delete(event) and commit. *)
DeleteStored(op, cred, e, env, status, detail) ==
    LET req == [e |-> e, env |-> env]
        key == events[e].image_url
        removed == IF key # None /\ env.del THEN {key[1]} ELSE {}
    IN  /\ objects' = objects \ removed
        /\ IF env.db
           THEN /\ DeleteEventRows(e)
                /\ last' = Response(op, cred, req, status, detail)
           ELSE /\ UNCHANGED <<users, tags, organizers, events, event_tags,
                               bookmarks, audit>>
                /\ last' = Response(op, cred, req, 500,
                                    "Internal Server Error")

(* DELETE /api/v1/event/{event_id} of an event that may have an image. *)
delete_event_image(cred, e, env) ==
    IF require_admin(cred) # 0
    THEN /\ Answer("delete_event", cred, [e |-> e, env |-> env],
                   require_admin(cred), GateDetail(cred))
         /\ UNCHANGED objects
    ELSE IF e \notin EventIds
    THEN /\ Answer("delete_event", cred, [e |-> e, env |-> env], 404,
                   "Not found")
         /\ UNCHANGED objects
    ELSE DeleteStored("delete_event", cred, e, env, 204, "")

(* POST /admin/events/{event_id}/delete of an event that may have an
   image. *)
do_admin_event_delete_image(cred, e, env) ==
    IF _require_admin(get_current_user_cookie(cred)) # 0
    THEN /\ Answer("do_admin_event_delete", cred, [e |-> e, env |-> env],
                   403, "Admin access required")
         /\ UNCHANGED objects
    ELSE IF e \notin EventIds
    THEN /\ Answer("do_admin_event_delete", cred, [e |-> e, env |-> env],
                   302, "/admin/events")
         /\ UNCHANGED objects
    ELSE DeleteStored("do_admin_event_delete", cred, e, env, 302,
                      "/admin/events")

ImageCredentials == {Token(1), Token(2)}

(***************************************************************************)
(* SpecImage: creation and edit of events with images by the admin, under  *)
(* every outcome of the bucket and the database that the handler can       *)
(* meet.                                                                   *)
(***************************************************************************)
Outcomes == [put : BOOLEAN, del : BOOLEAN, db : BOOLEAN]

(* create_event deletes only what it has uploaded. *)
ApiOutcomes == {o \in Outcomes : o.put \/ o.del}

(* The browser's creation and edit never delete. *)
PageOutcomes == {o \in Outcomes : o.del}

(* Deletion never uploads. *)
DeleteOutcomes == {o \in Outcomes : o.put}

Png == [filename |-> "p.png", content_type |-> "image/png", contents |-> "x"]

ApiImages ==
    {None, Some(Png),
     Some([filename |-> "t.txt", content_type |-> "text/plain",
           contents |-> "x"])}

(* The form's file input, left empty or with a picture. *)
PageImages ==
    {Some([filename |-> "", content_type |-> "application/octet-stream",
           contents |-> ""]),
     Some(Png)}

ApiImageForms ==
    [title : {"n"}, organizer_id : {1, 9}, price : {Dec(5, 0)},
     city_id : {None}, description : {None}, is_online : {FALSE},
     tag_ids : {<< <<"1">> >>}]

PageImageForms ==
    [title : {"n"}, organizer_id : {1, 9}, price : {Dec(5, 0)},
     city_id : {Some(1)}, description : {None}, is_online : {Some("true")},
     tag_ids : {<<1>>}]

EditImageForms ==
    [title : {"b"}, organizer_id : {1}, price : {Dec(1000, 2)},
     city_id : {Some(1)}, description : {None}, is_online : {None},
     tag_ids : {Some(<<2>>)}]

(* One sequential request that may reach the bucket. *)
StorageRequest(handler) ==
    /\ nops < MaxOps
    /\ nops' = nops + 1
    /\ UNCHANGED <<sessions, cities>>
    /\ handler

ApiCreateImage ==
    StorageRequest(\E form \in ApiImageForms, image \in ApiImages,
                      env \in ApiOutcomes :
                       create_event_image(Token(1), form, image, env))

PageCreateImage ==
    StorageRequest(\E form \in PageImageForms, image \in PageImages,
                      env \in PageOutcomes :
                       do_admin_event_create_image(Token(1), form, image,
                                                   env))

PageEditImage ==
    StorageRequest(\E e \in {1}, form \in EditImageForms,
                      image \in PageImages, env \in PageOutcomes :
                       do_admin_event_edit_image(Token(1), e, form, image,
                                                 env))

NextImage == ApiCreateImage \/ PageCreateImage \/ PageEditImage

SpecImage == Init /\ [][NextImage]_vars

(***************************************************************************)
(* SpecUnlink: deletion of events, one of them with a stored image, under  *)
(* every outcome of the bucket and the database.                           *)
(***************************************************************************)
InitUnlink ==
    /\ users = {[id |-> 1, email |-> "admin@admin.com", role |-> "admin"],
                [id |-> 2, email |-> "u@x", role |-> "user"]}
    /\ tags = {[id |-> 1, name |-> "t1"], [id |-> 2, name |-> "t2"]}
    /\ organizers = {[id |-> 1, name |-> "o1"]}
    /\ cities = {[id |-> 1, name |-> "c1"]}
    /\ events = (1 :> [InitialEvent EXCEPT !.image_url = Some("uploads/0")])
                @@ (2 :> InitialEvent)
                @@ (3 :> [InitialEvent EXCEPT !.image_url = Some("uploads/3")])
    /\ event_tags = <<<<1, 1>>, <<1, 2>>, <<2, 2>>>>
    /\ bookmarks = <<<<2, 1>>, <<2, 2>>>>
    /\ audit = <<[event_id |-> 1, changed_by |-> Some(1),
                  changed_column |-> "title", old_value |-> "z",
                  new_value |-> "a"]>>
    /\ sessions = <<>>
    /\ objects = {"uploads/0", "uploads/3"}
    /\ last = NoRequest
    /\ nops = 0

UnlinkKeys == {1, 2, 3, 9}

ApiDeleteImage ==
    StorageRequest(\E cred \in ImageCredentials, e \in UnlinkKeys,
                      env \in DeleteOutcomes :
                       delete_event_image(cred, e, env))

PageDeleteImage ==
    StorageRequest(\E cred \in ImageCredentials, e \in UnlinkKeys,
                      env \in DeleteOutcomes :
                       do_admin_event_delete_image(cred, e, env))

NextUnlink == ApiDeleteImage \/ PageDeleteImage

SpecUnlink == InitUnlink /\ [][NextUnlink]_vars

(***************************************************************************)
(* SpecParse: Event creation by the admin with tag-id selections: the      *)
(* API's comma-separated string, split at its commas, and the browser's    *)
(* list of integers.                                                       *)
(***************************************************************************)
TagIdTexts ==
    {<<>>,
     << <<"1">> >>,
     << <<"1">>, <<" ", "2", " ">> >>,
     << <<"x">>, <<"3">> >>,
     << <<"-", "1">>, <<"2">> >>,
     << <<"1">>, <<>>, <<"3">> >>,
     << <<"1", ".", "5">> >>,
     << <<"0", "3">>, <<"+", "2">> >>,
     << <<"1">>, <<"U+00B2">> >>,
     << <<"U+00B2">> >>,
     << <<"9">> >>,
     << <<"1">>, <<"1">> >>}

ApiParseForms ==
    [title : {"n"}, organizer_id : {1}, price : {Dec(5, 0)},
     city_id : {None}, description : {None}, is_online : {FALSE},
     tag_ids : TagIdTexts]

PageParseForms ==
    [title : {"n"}, organizer_id : {1}, price : {Dec(5, 0)},
     city_id : {Some(1)}, description : {None}, is_online : {Some("true")},
     tag_ids : {<<>>, <<1>>, <<2, 3>>, <<9>>}]

ApiCreateParsed ==
    Request(\E form \in ApiParseForms : create_event(Token(1), form))

PageCreateParsed ==
    Request(\E form \in PageParseForms :
                do_admin_event_create(Token(1), form))

NextParse == ApiCreateParsed \/ PageCreateParsed

SpecParse == Init /\ [][NextParse]_vars

(***************************************************************************)
(* SpecTags: tag creation and deletion through both surfaces on the store  *)
(* of SpecStore, whose tags 1 and 2 are associated with events and whose   *)
(* tag 3 is not.                                                           *)
(***************************************************************************)
StoredTagKeys == {1, 2, 3, 9}

ApiRemoveTag ==
    Request(\E cred \in GateCredentials, t \in StoredTagKeys :
                delete_tag(cred, t))

PageRemoveTag ==
    Request(\E cred \in GateCredentials, t \in StoredTagKeys :
                do_admin_tag_delete(cred, t))

NextTags == ApiRemoveTag \/ PageRemoveTag \/ ApiCreateTag \/ PageCreateTag

SpecTags == InitStore /\ [][NextTags]_vars

(***************************************************************************)
(* SpecRepeat: Event creation and update by the admin with tag-id          *)
(* selections that repeat an id, name it once or name an unknown tag.      *)
(***************************************************************************)
RepeatSelections == {<<1, 1>>, <<2, 3, 2>>, <<2, 3>>, <<9, 9>>}

RepeatTexts ==
    {<< <<"1">>, <<" ", "1">> >>, << <<"2">>, <<"x">>, <<"0", "2">> >>,
     << <<"2">>, <<"3">> >>, << <<"9">>, <<"9">> >>}

ApiRepeatForms ==
    [title : {"n"}, organizer_id : {1}, price : {Dec(5, 0)},
     city_id : {None}, description : {None}, is_online : {FALSE},
     tag_ids : RepeatTexts]

PageRepeatForms ==
    [title : {"n"}, organizer_id : {1}, price : {Dec(5, 0)},
     city_id : {Some(1)}, description : {None}, is_online : {Some("true")},
     tag_ids : RepeatSelections]

RepeatPayloads ==
    {Body([title |-> t, description |-> None, price |-> None,
           tag_ids |-> Some(Some(ids))]) :
        t \in {None, Some(Some("b"))}, ids \in RepeatSelections}

RepeatEditForms ==
    [title : {"a", "b"}, organizer_id : {1}, price : {Dec(1000, 2)},
     city_id : {Some(1)}, description : {None}, is_online : {None},
     tag_ids : {Some(ids) : ids \in RepeatSelections}]

ApiCreateRepeated ==
    Request(\E form \in ApiRepeatForms : create_event(Token(1), form))

PageCreateRepeated ==
    Request(\E form \in PageRepeatForms :
                do_admin_event_create(Token(1), form))

ApiUpdateRepeated ==
    Request(\E e \in EventKeys : update_event(Token(1), e, RepeatPayloads))

PageEditRepeated ==
    Request(\E e \in EventKeys :
                do_admin_event_edit(Token(1), e, RepeatEditForms))

NextRepeat ==
    \/ ApiCreateRepeated \/ PageCreateRepeated
    \/ ApiUpdateRepeated \/ PageEditRepeated

SpecRepeat == Init /\ [][NextRepeat]_vars

(***************************************************************************)
(* Properties.                                                             *)
(***************************************************************************)
(* The audit rows the step appended. *)
NewAuditRows == SubSeq(audit', Len(audit) + 1, Len(audit'))

(* The step is a committed PATCH of an event. *)
PatchCommitted == last'.op = "update_event" /\ last'.status = 200

(* The supplied fields (tag_ids excluded) of body p whose str() differs from
   that of row old. *)
StrChanged(p, old) ==
    {f \in DOMAIN p \ {"tag_ids"} : Str(f, p[f]) # Str(f, old[f])}

(* rows are exactly one audit row of event e per field of fs, each with the
   stored and the supplied value's str(). *)
RowsAre(rows, fs, e, p, old) ==
    /\ Len(rows) = Cardinality(fs)
    /\ {r.changed_column : r \in Range(rows)} = fs
    /\ \A r \in Range(rows) :
          /\ r.event_id = e
          /\ r.old_value = Str(r.changed_column, old[r.changed_column])
          /\ r.new_value = Str(r.changed_column, p[r.changed_column])

(* C1, as amended: the audit rows a committed update_event creates are
   exactly the explicitly supplied fields (tag_ids excluded) whose
   stringified new value differs from the stringified value stored before
   the update; an omitted field yields no row, and a field set to a value
   with the same string form as the stored one yields no row. *)
C1_DiffCompleteness ==
    [][PatchCommitted =>
          RowsAre(NewAuditRows,
                  StrChanged(last'.req.p, events[last'.req.e]),
                  last'.req.e, last'.req.p, events[last'.req.e])]_vars

(* C1's case: a committed update that sets title to its stored text and
   price to another amount leaves one row, for price. *)
C1_Witness ==
    /\ nops = 1
    /\ last.op = "update_event" /\ last.status = 200
    /\ DOMAIN last.req.p = {"title", "price"}
    /\ last.req.p.title = Some("a")
    /\ last.req.p.price = Some(Dec(1250, 2))
    /\ Len(audit) = 1
    /\ audit[1].changed_column = "price"
    /\ audit[1].old_value = "10.00" /\ audit[1].new_value = "12.50"

(* C1, as stated: in addition, a field explicitly set to its current value
   (an equal value, whatever its written form) never yields a row. *)
C1_AsStated ==
    [][PatchCommitted =>
          /\ RowsAre(NewAuditRows,
                     StrChanged(last'.req.p, events[last'.req.e]),
                     last'.req.e, last'.req.p, events[last'.req.e])
          /\ \A f \in DOMAIN last'.req.p \ {"tag_ids"} :
                ValueEq(f, last'.req.p[f], events[last'.req.e][f])
                   => \A r \in Range(NewAuditRows) : r.changed_column # f]_vars

(* The step is an update_event whose commit failed. *)
PatchFailed ==
    last'.op = "update_event" /\ last'.status \notin {200, 401, 403, 404}

(* C3: if any step of an event update fails, the committed state is
   unchanged (event fields, tag associations and audit log) and a reference
   error is reported (the 400 create_event answers a foreign-key failure
   with). *)
C3_AllOrNothingReported ==
    [][PatchFailed => UNCHANGED dbvars /\ last'.status = 400]_vars

(* The part of C3 that holds: a failed update leaves the store as it was. *)
C3_RolledBack == [][PatchFailed => UNCHANGED dbvars]_vars

(* C6: a committed update_event leaves every stored field it was not given
   (updated_at apart) as it was, organizer_id, image_url and created_at
   included, and stores null for a field explicitly given as null. *)
C6_OmittedUntouched ==
    [][PatchCommitted =>
          \A f \in EventColumns \ {"updated_at"} :
             /\ f \notin DOMAIN last'.req.p
                   => events'[last'.req.e][f] = events[last'.req.e][f]
             /\ (f \in DOMAIN last'.req.p /\ last'.req.p[f] = None)
                   => events'[last'.req.e][f] = None]_vars

(* C6's case: description, stored as "d", is explicitly set to null by an
   update that gives no other field, and is null afterwards while the title
   set by the update before it stays. *)
C6_Witness ==
    /\ last.op = "update_event" /\ last.status = 200
    /\ DOMAIN last.req.p = {"description"}
    /\ last.req.p.description = None
    /\ events[last.req.e].description = None
    /\ events[last.req.e].title = Some("b")
    /\ Len(audit) = 3
    /\ audit[3].changed_column = "description"
    /\ audit[3].old_value = "d" /\ audit[3].new_value = "None"

(* The PATCH body supplies no tag selection: tag_ids absent or null. *)
NoTagSelection(p) == "tag_ids" \notin DOMAIN p \/ p.tag_ids = None

(* The step is a committed form edit of an event. *)
FormCommitted == last'.op = "do_admin_event_edit" /\ last'.status = 302

(* The associations of the events other than e are as they were. *)
OtherTagsKept(e) ==
    \A o \in EventIds \ {e} : TagsOf(event_tags', o) = TagsOf(event_tags, o)

(* C4: when a committed update (PATCH or form edit) supplies a tag
   selection, the event's association set is exactly that selection
   afterwards, whatever it was before, one row per tag, and the other
   events' associations are as before. *)
C4_TagReplacement ==
    [][/\ (PatchCommitted /\ ~NoTagSelection(last'.req.p))
             => /\ TagsOf(event_tags', last'.req.e)
                      = Range(last'.req.p.tag_ids[1])
                /\ OtherTagsKept(last'.req.e)
                /\ Cardinality(Range(event_tags')) = Len(event_tags')
       /\ (FormCommitted /\ last'.req.form.tag_ids # None)
             => /\ TagsOf(event_tags', last'.req.e)
                      = Range(last'.req.form.tag_ids[1])
                /\ OtherTagsKept(last'.req.e)
                /\ Cardinality(Range(event_tags')) = Len(event_tags')]_vars

(* C4's case: event 1, tagged 1 and 2, is given the selection 2, 3 and is
   tagged 2 and 3 afterwards; event 2 keeps its tag. *)
C4_Witness ==
    /\ nops = 1
    /\ last.op = "update_event" /\ last.status = 200
    /\ last.req.e = 1
    /\ "tag_ids" \in DOMAIN last.req.p
    /\ last.req.p.tag_ids = Some(<<2, 3>>)
    /\ TagsOf(event_tags, 1) = {2, 3}
    /\ TagsOf(event_tags, 2) = {1}

(* C5, as stated: an update that supplies no tag selection leaves the
   event's associations unchanged, for the PATCH and for the form edit. *)
C5_AsStated ==
    [][/\ (PatchCommitted /\ NoTagSelection(last'.req.p))
             => event_tags' = event_tags
       /\ (FormCommitted /\ last'.req.form.tag_ids = None)
             => event_tags' = event_tags]_vars

(* C5, as amended: a PATCH that supplies no tag selection (tag_ids absent
   or null) leaves every association unchanged; a form edit that sends no
   tag selection removes all associations of the event, and leaves those
   of the other events. *)
C5_TagOmission ==
    [][/\ (PatchCommitted /\ NoTagSelection(last'.req.p))
             => event_tags' = event_tags
       /\ (FormCommitted /\ last'.req.form.tag_ids = None)
             => /\ TagsOf(event_tags', last'.req.e) = {}
                /\ OtherTagsKept(last'.req.e)]_vars

(* C5's case: a PATCH of event 1 with a title and no tag_ids commits and
   the event keeps tags 1 and 2; then a form edit of event 2 without a tag
   selection leaves event 2 with no tag. *)
C5_Witness ==
    /\ nops = 2
    /\ last.op = "do_admin_event_edit" /\ last.status = 302
    /\ last.req.e = 2 /\ last.req.form.tag_ids = None
    /\ TagsOf(event_tags, 2) = {}
    /\ TagsOf(event_tags, 1) = {1, 2}
    /\ events[1].title = Some("b")
    /\ Len(audit) = 1 /\ audit[1].event_id = 1


(***************************************************************************)
(* Access gate (SpecGate).                                                 *)
(***************************************************************************)
AdminOnlyApi == {"create_event", "update_event", "delete_event",
                 "create_tag", "delete_tag", "create_organizer"}

AdminOnlyPage == {"do_admin_event_create", "do_admin_event_edit",
                  "do_admin_event_delete", "do_admin_tag_create",
                  "do_admin_tag_delete", "do_admin_organizer_create"}

(* The stored user the credential names, if any. *)
Caller(cred) == IF DecodeSub(cred) = None THEN None
                ELSE IF \E u \in users : u.id = DecodeSub(cred)[1]
                THEN Some(CHOOSE u \in users : u.id = DecodeSub(cred)[1])
                ELSE None

Anonymous(cred) == Caller(cred) = None

IsAdmin(cred) == ~Anonymous(cred) /\ Caller(cred)[1].role = "admin"

(* The step is an admin-only mutation request of a caller who is not an
   admin. *)
GatedAttempt ==
    /\ nops' # nops
    /\ last'.op \in AdminOnlyApi \cup AdminOnlyPage
    /\ ~IsAdmin(last'.cred)

(* C2 as stated: every admin-only mutation attempted by an anonymous or
   non-admin caller fails with an authorization error (403 Forbidden) and
   leaves the stored state as it was. *)
C2_AsStated ==
    [][GatedAttempt => last'.status = 403 /\ UNCHANGED dbvars]_vars

(* C2, amended: the attempt leaves the stored state as it was and fails at
   the gate; the failure is the authorization error 403, except that the
   API surface answers an anonymous caller (no token, an invalid token)
   with the authentication error 401. *)
C2_AccessGating ==
    [][GatedAttempt =>
          /\ UNCHANGED dbvars
          /\ last'.status = IF last'.op \in AdminOnlyApi
                               /\ Anonymous(last'.cred)
                            THEN 401 ELSE 403]_vars

(* A non-admin's API deletion of the existing event 1 was refused. *)
C2_Witness ==
    /\ last.op = "delete_event"
    /\ last.cred = Token(2)
    /\ last.status = 403
    /\ 1 \in EventIds

(***************************************************************************)
(* Duplicate creation (SpecDup).                                           *)
(***************************************************************************)
(* The step is a creation request, past the gate, whose unique key is
   already stored. *)
DuplicateAttempt ==
    /\ nops' # nops
    /\ CASE last'.op = "do_register" ->
              \E u \in users : u.email = last'.req.email
         [] last'.op \in {"add_bookmark", "frontend_add_bookmark"} ->
              /\ ~Anonymous(last'.cred)
              /\ Bookmarked(Caller(last'.cred)[1].id, last'.req.e)
         [] last'.op \in {"create_tag", "do_admin_tag_create"} ->
              /\ IsAdmin(last'.cred)
              /\ \E t \in tags : t.name = last'.req.name
         [] last'.op \in {"create_organizer", "do_admin_organizer_create"} ->
              /\ IsAdmin(last'.cred)
              /\ \E o \in organizers : o.name = last'.req.name
         [] OTHER -> FALSE

(* The answer of an exception no handler caught. *)
UnhandledError(r) == r.status = 500 /\ r.detail = "Internal Server Error"

(* C10 as stated: a creation whose unique key is already stored adds no
   row and fails with an outcome of its own, not the outcome of any other
   failure. *)
C10_AsStated ==
    [][DuplicateAttempt =>
          /\ UNCHANGED dbvars
          /\ last'.status >= 400
          /\ ~UnhandledError(last')]_vars

(* The part of C10 that holds: a duplicate creation adds no row. *)
C10_NoRowAdded == [][DuplicateAttempt => UNCHANGED dbvars]_vars

(***************************************************************************)
(* Concurrent requests (SpecConc).                                         *)
(***************************************************************************)
(* The slot whose request the step commits. *)
Committing(s) ==
    /\ s \in DOMAIN sessions
    /\ s \notin DOMAIN sessions'
    /\ nops' = nops

(* The step commits the update in slot s and the commit succeeds. *)
UpdateCommitted(s) ==
    /\ Committing(s)
    /\ sessions[s].op = "update_event"
    /\ last'.status = 200

(* C7 as stated: every audit row an update of e appends records, for its
   field, the value stored immediately before the update was applied as
   the old value and the value stored after it as the new value, and the
   two differ. *)
C7_AsStated ==
    [][\A s \in Slots : UpdateCommitted(s) =>
          \A r \in Range(NewAuditRows) :
             LET e == sessions[s].req.e
                 f == r.changed_column
             IN  /\ r.event_id = e
                 /\ r.old_value = Str(f, events[e][f])
                 /\ r.new_value = Str(f, events'[e][f])
                 /\ events[e][f] # events'[e][f]]_vars

(* C8 as stated: when an update commits after another request changed the
   event it had loaded, every field it supplies is stored as supplied, also
   where the supplied value equals the value it loaded. *)
C8_AsStated ==
    [][\A s \in Slots :
          (UpdateCommitted(s)
             /\ sessions[s].snap # events[sessions[s].req.e]) =>
          \A f \in DOMAIN sessions[s].req.p \ {"tag_ids"} :
             events'[sessions[s].req.e][f]
                = ColumnStore(f, sessions[s].req.p[f])]_vars

(* C9: in every reachable state there is at most one Bookmark per (user,
   event), at most one EventTag per (event, tag) and at most one User per
   email. *)
C9_Uniqueness ==
    /\ Cardinality(Range(bookmarks)) = Len(bookmarks)
    /\ Cardinality(Range(event_tags)) = Len(event_tags)
    /\ Cardinality({u.email : u \in users}) = Cardinality(users)

(* A request that loaded before the other's commit tried to add the
   bookmark the other had added, and the store refused it. *)
C9_Witness ==
    /\ last.op = "add_bookmark"
    /\ last.status = 500
    /\ <<2, last.req.e>> \in Range(bookmarks)

(***************************************************************************)
(* Listing (SpecList).                                                     *)
(***************************************************************************)
(* The step is a listing request. *)
ListStep == nops' # nops /\ last'.op \in {"list_events", "page_index"}

(* The ids the listing requests name. *)
IdValue == ("1" :> 1) @@ ("2" :> 2)

(* text contains needle, letter case apart. *)
ContainsText(text, needle) ==
    \E i \in 1..(Len(text) - Len(needle) + 1) :
       \A k \in 1..Len(needle) :
          Lower(SubSeq(text, i + k - 1, i + k - 1))
             = Lower(SubSeq(needle, k, k))

(* Every parameter of q is absent or a plain value: a text without
   wildcard characters, the id of a row, "true" or "false". *)
PlainQuery(q) ==
    /\ q.search \in {None, Some("a")}
    /\ \A f \in {"city_id", "organizer_id", "tag_id"} :
          q[f] = None \/ q[f][1] \in DOMAIN IdValue
    /\ q.is_online \in {None, Some("true"), Some("false")}

(* Event e satisfies every filter q supplies. *)
Satisfies(e, q) ==
    /\ q.search # None =>
          \/ ContainsText(events[e].title[1], q.search[1])
          \/ /\ events[e].description # None
             /\ ContainsText(events[e].description[1], q.search[1])
    /\ q.city_id # None => events[e].city_id = Some(IdValue[q.city_id[1]])
    /\ q.organizer_id # None =>
          events[e].organizer_id = Some(IdValue[q.organizer_id[1]])
    /\ q.is_online # None =>
          events[e].is_online = Some(q.is_online[1] = "true")
    /\ q.tag_id # None => IdValue[q.tag_id[1]] \in TagsOf(event_tags, e)

(* The listing of exactly the events that satisfy q, each once. *)
Listing(q) == [e \in {x \in EventIds : Satisfies(x, q)} |-> 1]

(* C11 as stated: for every combination of supplied filters (text, city,
   organizer, online flag, tag) the listing succeeds and returns exactly
   the events that satisfy all of them, each once; with no filter, all
   events. *)
C11_AsStated ==
    [][(ListStep /\ PlainQuery(last'.req)) =>
          /\ last'.status = 200
          /\ last'.detail = Listing(last'.req)]_vars

(* The part of C11 that holds: the page's listing, which has no city
   filter. *)
C11_PageListing ==
    [][(ListStep /\ PlainQuery(last'.req) /\ last'.op = "page_index") =>
          /\ last'.status = 200
          /\ last'.detail = Listing(last'.req)]_vars

(* The query supplies the online flag and nothing else. *)
OnlyOnline(q) ==
    \A f \in DOMAIN q \ {"is_online"} : q[f] = None

(* The events the online flag selects: the online ones for "true", the
   others for "false", all for any other text and for no parameter. *)
OnlineListing(q) ==
    [e \in {x \in EventIds :
               /\ q.is_online = Some("true") => events[x].is_online[1]
               /\ q.is_online = Some("false") => ~events[x].is_online[1]}
       |-> 1]

(* C12 as stated: is_online=true lists the online events, is_online=false
   the events that are not online, and any other value, like no value,
   restricts nothing. *)
C12_AsStated ==
    [][(ListStep /\ OnlyOnline(last'.req)) =>
          /\ last'.status = 200
          /\ last'.detail = OnlineListing(last'.req)]_vars

(* The part of C12 that holds: the page's decoding of is_online. *)
C12_PageDecoding ==
    [][(ListStep /\ OnlyOnline(last'.req) /\ last'.op = "page_index") =>
          /\ last'.status = 200
          /\ last'.detail = OnlineListing(last'.req)]_vars

(* A step that is the statement deleting row key of a table. *)
Deletes(table, key) ==
    nops' = nops + 1 /\ last'.op = table /\ last'.req.id = key

(* C13 as stated: deleting a City that an Event references fails; the City
   still exists and every Event that referenced it still references it. *)
C13_AsStated ==
    [][\A c \in CityIds :
          Deletes("cities", c) /\ Referencing("city_id", c) # {}
          => /\ c \in CityIds'
             /\ \A e \in Referencing("city_id", c) :
                   e \in DOMAIN events' /\ events'[e].city_id = Some(c)]_vars

(* C13, amended: deleting a City that an Event references succeeds; the
   City no longer exists and every Event that referenced it still exists,
   with a null city reference and its other columns unchanged. *)
C13_CitySetNull ==
    [][\A c \in CityIds :
          Deletes("cities", c) /\ Referencing("city_id", c) # {}
          => /\ c \notin CityIds'
             /\ \A e \in Referencing("city_id", c) :
                   /\ e \in DOMAIN events'
                   /\ events'[e] = [events[e] EXCEPT !.city_id = None]]_vars

(* A referenced city was deleted: an event has lost its city. *)
C13_Witness ==
    /\ last.op = "cities"
    /\ last.req.id \notin CityIds
    /\ \E e \in EventIds : events[e].city_id = None

(* The rows of a table that do not belong to the events of S; col is the
   column of the table that references the event. *)
OfOtherEvents(rows, S, col) ==
    SelectSeq(rows, LAMBDA r : r[col] \notin S)

(* C14: deleting an Organizer deletes every Event that references it and
   every Bookmark, EventTag and audit row of those Events; the Events of
   other Organizers and their rows are unchanged. *)
C14_OrganizerCascade ==
    [][\A o \in OrganizerIds :
          Deletes("organizers", o)
          => LET gone == Referencing("organizer_id", o)
             IN  /\ o \notin OrganizerIds'
                 /\ DOMAIN events' = EventIds \ gone
                 /\ \A e \in EventIds \ gone : events'[e] = events[e]
                 /\ event_tags' = OfOtherEvents(event_tags, gone, 1)
                 /\ bookmarks' = OfOtherEvents(bookmarks, gone, 2)
                 /\ audit' = OfOtherEvents(audit, gone, "event_id")]_vars

(* Organizer 1 was deleted with its events 1 and 2 and their rows; event 3
   of organizer 2 is left with its tag, bookmark and audit rows. *)
C14_Witness ==
    /\ nops = 1
    /\ last.op = "organizers"
    /\ OrganizerIds = {2}
    /\ EventIds = {3}
    /\ event_tags = <<<<3, 2>>>>
    /\ bookmarks = <<<<2, 3>>>>
    /\ Len(audit) = 2

(* A step in which a delete handler deleted event e. *)
EventDeleted(e) ==
    /\ last'.op \in {"delete_event", "do_admin_event_delete"}
    /\ last'.req.e = e
    /\ e \notin DOMAIN events'

(* C15: after an administrator deletes an Event, no EventTag, Bookmark or
   audit row references it; the other Events and their rows, the Tags and
   the Users are unchanged. *)
C15_EventCascade ==
    [][\A e \in EventIds :
          EventDeleted(e)
          => /\ IsAdmin(last'.cred)
             /\ \A x \in EventIds \ {e} :
                   x \in DOMAIN events' /\ events'[x] = events[x]
             /\ event_tags' = OfOtherEvents(event_tags, {e}, 1)
             /\ bookmarks' = OfOtherEvents(bookmarks, {e}, 2)
             /\ audit' = OfOtherEvents(audit, {e}, "event_id")
             /\ tags' = tags
             /\ users' = users]_vars

(* The admin deleted event 1, which had tags, bookmarks and an audit row;
   the rows of events 2 and 3 are left. *)
C15_Witness ==
    /\ nops = 1
    /\ last.op \in {"delete_event", "do_admin_event_delete"}
    /\ EventIds = {2, 3}
    /\ event_tags = <<<<2, 2>>, <<3, 2>>>>
    /\ bookmarks = <<<<2, 3>>, <<3, 2>>>>
    /\ Len(audit) = 3

(* C16: deleting a User who is changed_by of audit rows leaves every audit
   row in place, those of the User with changed_by null and their other
   columns unchanged. *)
C16_AttributionSetNull ==
    [][\A u \in UserIds :
          /\ Deletes("users", u)
          /\ \E r \in Range(audit) : r.changed_by = Some(u)
          => /\ u \notin UserIds'
             /\ Len(audit') = Len(audit)
             /\ \A i \in DOMAIN audit :
                   audit'[i] = IF audit[i].changed_by = Some(u)
                               THEN [audit[i] EXCEPT !.changed_by = None]
                               ELSE audit[i]]_vars

(* User 3, author of two audit rows, was deleted: the four rows are there,
   two of them without attribution. *)
C16_Witness ==
    /\ nops = 1
    /\ last.op = "users"
    /\ UserIds = {1, 2}
    /\ Len(audit) = 4
    /\ Cardinality({i \in DOMAIN audit : audit[i].changed_by = None}) = 2

(* The step is a committed update of event e, by either handler. *)
Updated(e) ==
    /\ PatchCommitted \/ FormCommitted
    /\ last'.req.e = e

(* C17: an Event is created with a null updated_at; every committed update
   of an Event sets its updated_at; and the updated_at of an Event changes
   in no step other than a committed update of that Event. *)
C17_UpdatedAtLifecycle ==
    [][/\ \A e \in DOMAIN events' \ EventIds : events'[e].updated_at = None
       /\ \A e \in EventIds :
             Updated(e) => /\ e \in DOMAIN events'
                           /\ events'[e].updated_at = Some(nops')
       /\ \A e \in EventIds \cap DOMAIN events' :
             events'[e].updated_at # events[e].updated_at => Updated(e)]_vars

(* Event 2 was created and then updated: its updated_at is the time of the
   update, while that of event 1, which no request updated, is null. *)
C17_Witness ==
    /\ nops = 2
    /\ last.op \in {"update_event", "do_admin_event_edit"}
    /\ last.req.e = 2
    /\ 2 \in EventIds
    /\ events[2].updated_at = Some(2)
    /\ events[2].created_at = Some(1)
    /\ events[1].updated_at = None

(* C18 as stated: every stored Event price is non-negative. *)
C18_AsStated ==
    \A e \in EventIds :
        events[e].price # None => events[e].price[1].c >= 0

(* The orders in which a request body can supply the fields of S. *)
Orderings(S) ==
    {order \in [1..Cardinality(S) -> S] :
        \A i, j \in 1..Cardinality(S) : order[i] = order[j] => i = j}

(* The columns of a sequence of audit rows, in its order. *)
Columns(rows) == [i \in DOMAIN rows |-> rows[i].changed_column]

(* C19 as stated: the audit rows of one update are in the order in which
   the request supplied the fields, for every order of the same fields. *)
C19_AsStated ==
    [][PatchCommitted =>
          \A order \in Orderings(DOMAIN last'.req.p \ {"tag_ids"}) :
              Columns(NewAuditRows)
                = SelectSeq(order,
                            LAMBDA f : f \in StrChanged(last'.req.p,
                                                      events[last'.req.e]))]_vars

(* C19, amended: the audit rows of one update are in the order in which
   EventUpdate declares the fields, whatever the order in which the request
   supplied them. *)
C19_DeclarationOrder ==
    [][PatchCommitted =>
          Columns(NewAuditRows)
            = SelectSeq(<<"title", "description", "price">>,
                        LAMBDA f : f \in StrChanged(last'.req.p,
                                                  events[last'.req.e]))]_vars

(* An update that supplied price and title, both changed, left the row of
   title before the row of price. *)
C19_Witness ==
    /\ nops = 1
    /\ last.op = "update_event" /\ last.status = 200
    /\ DOMAIN last.req.p = {"price", "title"}
    /\ Columns(audit) = <<"title", "price">>

(* The credential is a token that does not validate: wrongly signed,
   expired or malformed. *)
Invalid(cred) == cred # None /\ ~cred[1].valid

(* The response of the step is that of the same request without token. *)
AsWithoutToken ==
    CASE last'.op = "page_event_detail"
           -> /\ last'.status = EventDetailPage(NoToken, last'.req.e).status
              /\ last'.detail = EventDetailPage(NoToken, last'.req.e).detail
      [] last'.op = "page_login"
           -> /\ last'.status = LoginPage(NoToken).status
              /\ last'.detail = LoginPage(NoToken).detail
      [] OTHER -> FALSE

(* C20: a token or cookie that does not validate classifies the caller as
   anonymous; an endpoint that serves any caller answers as it answers the
   same request without token, and an endpoint that needs a caller refuses
   the request as unauthenticated (401 on the API, the redirect to /login
   in the browser) and writes nothing. *)
C20_InvalidAsAbsent ==
    [][(nops' = nops + 1 /\ Invalid(last'.cred)) =>
          /\ get_current_user_optional(last'.cred) = None
          /\ UNCHANGED dbvars
          /\ last'.op \in {"page_event_detail", "page_login"}
                => AsWithoutToken /\ last'.status \in {200, 404}
          /\ last'.op = "add_bookmark" => last'.status = 401
          /\ last'.op = "frontend_add_bookmark"
                => last'.status = 302 /\ last'.detail = "/login"]_vars

(* User 2 bookmarked event 1 and then asked for its page with an expired
   cookie: the page is the anonymous one, without user and bookmark. *)
C20_Witness ==
    /\ nops = 2
    /\ Bookmarked(2, 1)
    /\ last.op = "page_event_detail"
    /\ last.cred = ExpiredToken(2)
    /\ last.req.e = 1
    /\ last.status = 200
    /\ last.detail = [user |-> None, is_bookmarked |-> FALSE]

(* The users the step added. *)
NewUsers == users' \ users

(* C21: no registration, login, bookmark or listing request creates an
   admin or changes a stored User; a registration creates a User of role
   "user"; the bootstrap script creates the admin account only when no
   User has its email, and otherwise changes nothing. *)
C21_NoSelfServiceAdmin ==
    [][/\ users \subseteq users'
       /\ last'.op # "create_first_admin"
             => \A u \in NewUsers : u.role = "user"
       /\ last'.op = "do_register" /\ last'.status = 302
             => /\ Cardinality(NewUsers) = 1
                /\ \A u \in NewUsers : u.email = last'.req.email
       /\ (nops' = nops + 1 /\ last'.op = "create_first_admin")
             => IF \E u \in users : u.email = "admin@admin.com"
                THEN UNCHANGED dbvars
                ELSE /\ Cardinality(NewUsers) = 1
                     /\ \A u \in NewUsers :
                           u.email = "admin@admin.com" /\ u.role = "admin"]_vars

(* The script ran twice: there is one admin account, created by the first
   run, beside the registered user. *)
C21_Witness ==
    /\ nops = 2
    /\ last.op = "create_first_admin"
    /\ last.detail = ""
    /\ Cardinality(users) = 2
    /\ Cardinality({u \in users : u.role = "admin"}) = 1

BookmarkOps ==
    {"add_bookmark", "frontend_add_bookmark", "remove_bookmark",
     "frontend_remove_bookmark"}

(* The bookmark rows that are not of user uid. *)
OfOtherUsers(rows, uid) == SelectSeq(rows, LAMBDA r : r[1] # uid)

(* C22: a bookmark request of user u adds or removes only rows of u, the
   rows of the other users are as before; an anonymous request adds and
   removes no row. *)
C22_BookmarkOwnership ==
    [][(nops' = nops + 1 /\ last'.op \in BookmarkOps) =>
          IF Anonymous(last'.cred) THEN bookmarks' = bookmarks
          ELSE OfOtherUsers(bookmarks', Caller(last'.cred)[1].id)
                 = OfOtherUsers(bookmarks, Caller(last'.cred)[1].id)]_vars

(* User 2 removed the bookmark of event 1: the bookmark of user 3 for the
   same event is still there. *)
C22_Witness ==
    /\ nops = 1
    /\ last.op \in {"remove_bookmark", "frontend_remove_bookmark"}
    /\ last.cred = Token(2)
    /\ last.req.e = 1
    /\ bookmarks = <<<<2, 3>>, <<3, 1>>, <<3, 2>>>>

(* The step is a request that names an event id that no event has, from a
   caller the endpoint admits: an admin for an update or a deletion, a
   logged-in user for a bookmark, anyone for a fetch. *)
MissingEvent ==
    /\ nops' = nops + 1
    /\ \/ last'.op \in AdminOnlyApi \cup AdminOnlyPage /\ IsAdmin(last'.cred)
       \/ last'.op \in BookmarkOps /\ ~Anonymous(last'.cred)
       \/ last'.op \in {"get_event", "page_event_detail"}
    /\ last'.op \in {"update_event", "do_admin_event_edit", "delete_event",
                     "do_admin_event_delete", "get_event",
                     "page_event_detail", "add_bookmark",
                     "frontend_add_bookmark"}
    /\ last'.req.e \notin EventIds

(* C23 as stated: a request that names an event id that does not exist is
   answered not found (404) and changes no stored state. *)
C23_AsStated ==
    [][MissingEvent => last'.status = 404 /\ UNCHANGED dbvars]_vars

(* What holds of it: such a request changes no stored state. *)
C23_NothingWritten == [][MissingEvent => UNCHANGED dbvars]_vars


(***************************************************************************)
(* C24.  Compensating deletion: in every Event creation, through the API   *)
(* or the admin form, whose image upload succeeds and whose flush or       *)
(* commit then fails, no Event row is committed, the uploaded object is    *)
(* deleted again when the bucket accepts the deletion, and when it does    *)
(* not the request still reports the database failure.                     *)
(***************************************************************************)
CreateOps == {"create_event", "do_admin_event_create"}

DatabaseFailures ==
    {"Invalid organizer_id, city_id, or tag_id.", "Database error",
     "Internal Server Error"}

(* A creation by the admin: the picture is in the bucket, the flush or the
   commit fails. *)
UploadedThenFailed ==
    /\ nops' = nops + 1
    /\ last'.op \in CreateOps
    /\ last'.req.image = Some(Png)
    /\ last'.req.env.put
    /\ last'.status \in {400, 500}

Compensated ==
    /\ UNCHANGED dbvars
    /\ last'.req.env.del => objects' = objects
    /\ last'.detail \in DatabaseFailures

C24_AsStated == [][UploadedThenFailed => Compensated]_vars

(* The API's creation compensates. *)
C24_ApiCompensates ==
    [][UploadedThenFailed /\ last'.op = "create_event" => Compensated]_vars

(* An upload of the API's creation was undone, and one could not be. *)
C24_ApiWitness ==
    /\ last.op = "create_event" /\ last.status = 400
    /\ last.req.image = Some(Png) /\ last.req.env.put /\ ~last.req.env.del
    /\ objects # {}


(***************************************************************************)
(* C25.  Upload failure aborts: when the bucket refuses the upload of the  *)
(* picture sent with an Event creation or edit, the request is answered    *)
(* with an error and leaves the store as it was: no Event row, field       *)
(* change, tag association or audit row of that request is committed.      *)
(***************************************************************************)
UploadOps == {"create_event", "do_admin_event_create", "do_admin_event_edit"}

UploadFailed ==
    /\ nops' = nops + 1
    /\ last'.op \in UploadOps
    /\ last'.req.image = Some(Png)
    /\ ~last'.req.env.put

Aborted == last'.status >= 400 /\ UNCHANGED dbvars

C25_AsStated == [][UploadFailed => Aborted]_vars

(* The API's creation aborts and names the upload. *)
C25_ApiAborts ==
    [][UploadFailed /\ last'.op = "create_event"
           => Aborted /\ last'.detail = "Image upload failed"]_vars

(* The API refused a creation whose upload failed. *)
C25_ApiWitness ==
    /\ last.op = "create_event" /\ last.detail = "Image upload failed"
    /\ last.req.image = Some(Png) /\ ~last.req.env.put /\ last.req.env.db
    /\ last.req.form.organizer_id = 1


(***************************************************************************)
(* C26.  Storage deletion failure does not abort Event deletion: when an   *)
(* admin deletes an Event that has a stored image and the bucket refuses   *)
(* the deletion of the object, the Event and its EventTag, Bookmark and    *)
(* audit rows are deleted all the same and the request is answered as a    *)
(* successful deletion (the database answering).                           *)
(***************************************************************************)
DeleteOps == {"delete_event", "do_admin_event_delete"}

UnlinkRefused ==
    /\ nops' = nops + 1
    /\ last'.op \in DeleteOps
    /\ IsAdmin(last'.cred)
    /\ last'.req.e \in EventIds
    /\ events[last'.req.e].image_url # None
    /\ ~last'.req.env.del
    /\ last'.req.env.db

RowsGone(e) ==
    /\ e \notin DOMAIN events'
    /\ \A r \in Range(event_tags') : r[1] # e
    /\ \A r \in Range(bookmarks') : r[2] # e
    /\ \A r \in Range(audit') : r.event_id # e

C26_DeletionSurvivesStorage ==
    [][UnlinkRefused => RowsGone(last'.req.e) /\ last'.status \in {204, 302}]_vars

(* Event 1 was deleted through the API, its object is still in the
   bucket. *)
C26_Witness ==
    /\ last.op = "delete_event" /\ last.status = 204
    /\ last.req.e = 1 /\ ~last.req.env.del
    /\ 1 \notin EventIds /\ "uploads/0" \in objects


(***************************************************************************)
(* C27.  Tag-id parsing on creation: for every comma-delimited tag-id      *)
(* string sent with an Event creation, the entries that are not            *)
(* non-negative decimal integers once trimmed are discarded without the    *)
(* request being rejected, and the new Event, under its new identifier,    *)
(* gets EventTag rows for exactly the remaining ids (these being distinct  *)
(* existing tags).                                                         *)
(***************************************************************************)
WellFormed(entries) == SelectSeq(entries, LAMBDA t : IsDigit(Strip(t)))

Remaining(entries) == {ToInt(Strip(t)) : t \in Range(WellFormed(entries))}

TagSetOf(rows, e) == {r[2] : r \in {x \in Range(rows) : x[1] = e}}

ParsedCreation ==
    /\ nops' = nops + 1
    /\ last'.op = "create_event"
    /\ IsAdmin(last'.cred)
    /\ last'.req.form.organizer_id \in OrganizerIds
    /\ Remaining(last'.req.form.tag_ids) \subseteq TagIds
    /\ Cardinality(Remaining(last'.req.form.tag_ids))
           = Len(WellFormed(last'.req.form.tag_ids))

RemainingInserted ==
    /\ last'.status = 201
    /\ DOMAIN events' = EventIds \cup {NextId(EventIds)}
    /\ TagSetOf(event_tags', NextId(EventIds))
           = Remaining(last'.req.form.tag_ids)
    /\ \A e \in EventIds : TagSetOf(event_tags', e) = TagSetOf(event_tags, e)

C27_AsStated == [][ParsedCreation => RemainingInserted]_vars

(* No entry of the string is a digit that int() refuses. *)
Convertible(entries) ==
    \A i \in 1..Len(entries) : \A j \in 1..Len(entries[i]) :
        entries[i][j] \notin SuperscriptChars

C27_ConvertibleParsed ==
    [][ParsedCreation /\ Convertible(last'.req.form.tag_ids)
           => RemainingInserted]_vars

(* "x,3" created an event tagged 3 only. *)
C27_ConvertibleWitness ==
    /\ last.op = "create_event" /\ last.status = 201
    /\ last.req.form.tag_ids = << <<"x">>, <<"3">> >>
    /\ TagSetOf(event_tags, 2) = {3}


(***************************************************************************)
(* C28.  Image and Event stay consistent on deletion: in every reachable   *)
(* state, an Event that exists and has an image reference has its object   *)
(* in the bucket.                                                          *)
(***************************************************************************)
C28_AsStated ==
    \A e \in EventIds :
        events[e].image_url # None => events[e].image_url[1] \in objects

(* A deletion whose commit the database answers keeps the consistency. *)
C28_WhileDatabaseAnswers ==
    [][nops' = nops + 1 /\ last'.req.env.db /\ C28_AsStated
           => C28_AsStated']_vars


(***************************************************************************)
(* C29.  Tag deletion: an administrator's deletion of a Tag that is        *)
(* associated with one or more Events succeeds, removes exactly the        *)
(* EventTag rows of that Tag and leaves every Event and every other Tag's  *)
(* associations unchanged; afterwards every EventTag row references an     *)
(* existing Event and an existing Tag.                                     *)
(***************************************************************************)
TagDeleteOps == {"delete_tag", "do_admin_tag_delete"}

AssociatedTagDeletion ==
    /\ nops' = nops + 1
    /\ last'.op \in TagDeleteOps
    /\ IsAdmin(last'.cred)
    /\ last'.req.t \in TagIds
    /\ \E r \in Range(event_tags) : r[2] = last'.req.t

EventTagsReferenced ==
    \A r \in Range(event_tags) : r[1] \in EventIds /\ r[2] \in TagIds

C29_AsStated ==
    [][AssociatedTagDeletion
           => /\ last'.status \in {204, 302}
              /\ tags' = {x \in tags : x.id # last'.req.t}
              /\ event_tags'
                     = SelectSeq(event_tags, LAMBDA r : r[2] # last'.req.t)
              /\ events' = events
              /\ EventTagsReferenced']_vars

(* Every EventTag row references an existing Event and an existing Tag. *)
C29_Referenced == EventTagsReferenced

(* The deletion of a tag without associations succeeds. *)
UnassociatedTagDeletion ==
    /\ nops' = nops + 1
    /\ last'.op \in TagDeleteOps
    /\ IsAdmin(last'.cred)
    /\ last'.req.t \in TagIds
    /\ \A r \in Range(event_tags) : r[2] # last'.req.t

C29_UnassociatedDeleted ==
    [][UnassociatedTagDeletion
           => /\ last'.status \in {204, 302}
              /\ tags' = {x \in tags : x.id # last'.req.t}
              /\ UNCHANGED <<events, event_tags>>]_vars


(***************************************************************************)
(* C30.  Repeated tag ids: when the tag-id selection sent with an Event    *)
(* creation or update names the same existing tag more than once, the      *)
(* request either stores that tag once or fails as a whole; afterwards no  *)
(* (event, tag) pair is stored twice, and after a failure every table is   *)
(* as before the request (a failed creation leaves no Event row).          *)
(***************************************************************************)
(* The ids of the selection a request carries, an empty sequence when it
   carries none. *)
SelectionOf(r) ==
    IF r.op = "create_event"
    THEN [i \in 1..Len(WellFormed(r.req.form.tag_ids))
              |-> ToInt(Strip(WellFormed(r.req.form.tag_ids)[i]))]
    ELSE IF r.op = "do_admin_event_create" THEN r.req.form.tag_ids
    ELSE IF r.op = "update_event"
    THEN (IF "tag_ids" \in DOMAIN r.req.p /\ r.req.p.tag_ids # None
          THEN r.req.p.tag_ids[1] ELSE <<>>)
    ELSE IF r.op = "do_admin_event_edit"
    THEN (IF r.req.form.tag_ids # None THEN r.req.form.tag_ids[1] ELSE <<>>)
    ELSE <<>>

RepeatsExisting(ids) ==
    \E i \in 1..Len(ids) : \E j \in 1..Len(ids) :
        i # j /\ ids[i] = ids[j] /\ ids[i] \in TagIds

RepeatedSelection ==
    /\ nops' = nops + 1
    /\ last'.op \in {"create_event", "do_admin_event_create"}
       \/ (last'.op \in {"update_event", "do_admin_event_edit"}
           /\ last'.req.e \in EventIds)
    /\ RepeatsExisting(SelectionOf(last'))

PairsUnique(rows) ==
    Cardinality({rows[i] : i \in 1..Len(rows)}) = Len(rows)

C30_RepeatedTagIds ==
    [][RepeatedSelection
           => /\ PairsUnique(event_tags')
              /\ last'.status >= 400 => UNCHANGED dbvars
              /\ last'.status < 400
                     => \A i \in 1..Len(SelectionOf(last')) :
                            \E e \in DOMAIN events' :
                                <<e, SelectionOf(last')[i]>>
                                    \in Range(event_tags')]_vars

(* An update whose selection repeats an existing id has failed and left
   the store as it was. *)
C30_Witness ==
    /\ last.op = "update_event" /\ last.status = 500
    /\ last.req.e = 1
    /\ RepeatsExisting(SelectionOf(last))
    /\ DOMAIN events = {1}
    /\ event_tags = <<<<1, 1>>, <<1, 2>>>>

=============================================================================
